---- MODULE Spec2Model ----
(***************************************************************************)
(* A model of the decision-stabilisation and speech-delivery core of the   *)
(* blind shopping assistant:                                               *)
(*   - app/voice/speech_module.py   SpeechEngine (queue, worker, cooldown)  *)
(*   - app/logic/aggregator.py      VoteAggregator                          *)
(*   - app/logic_module.py          DecisionEngine                          *)
(*   - app/banknote/tflite_stub.py  TfliteBanknoteStub.predict              *)
(*   - app/banknote/ocr_stub.py     OcrBanknoteStub.predict                 *)
(*   - app/price/price_module.py    PriceEngine.predict                     *)
(* Time is counted in whole seconds; confidences are counted in            *)
(* hundredths (0.4 is 40).  A text is a sequence of characters.            *)
(***************************************************************************)
EXTENDS Integers, Sequences, FiniteSets, TLC

(***************************************************************************)
(* Bounds of the model and constants of the program                        *)
(***************************************************************************)

\* The clock stops ticking at MaxTime.
MaxTime == 4

\* Capacity of the speech queue (SpeechConfig.queue_maxsize), scaled down.
QueueMax == 2

\* SpeechConfig.cooldown_seconds
Cooldown == 2

\* Queue entries are told apart by a ticket; the tickets below MaxTickets are
\* handed out once each, every later entry gets the ticket MaxTickets.
MaxTickets == 3

Producers == {"p1", "p2"}

\* What Optional[str] holds when it is None: no text is this sequence.
NoneText == <<"None">>

\* Texts a caller may hand to speak(): None, empty, blank, plain and padded.
InputTexts == {NoneText, <<>>, <<" ">>, <<"a">>, <<" ", "a", " ">>}

(***************************************************************************)
(* DecisionEngine and VoteAggregator: constants and inputs                 *)
(***************************************************************************)

\* app/config.py, in hundredths where the source has a float
CONF_THRESHOLD == 40
VOTE_N == 10
VOTE_MIN == 7

\* DecisionEngine._conf_maxlen_identify
ConfMaxlenIdentify == 5

\* DecisionEngine._obstacle_cooldown_seconds = 1.5, in half seconds
ObstacleCooldownHalves == 3

\* What Optional[str] holds when a vote gives no stable label.
NoLabel == "<None>"

Labels == {"A", "B"}

\* frame_shape = (height, width, channels)
FrameShape == <<12, 12, 3>>

\* Detections the recogniser may report: bbox = <<x1, y1, x2, y2>>.  The first
\* two boxes overlap with IoU 0.6; the first two confidences differ by 0.03.
Detections ==
    { [label |-> "A", conf |-> 90, bbox |-> <<0, 0, 4, 4>>],
      [label |-> "A", conf |-> 87, bbox |-> <<1, 0, 5, 4>>],
      [label |-> "B", conf |-> 87, bbox |-> <<1, 0, 5, 4>>],
      [label |-> "B", conf |-> 90, bbox |-> <<8, 0, 12, 4>>],
      [label |-> "A", conf |-> 20, bbox |-> <<8, 0, 12, 4>>],
      [label |-> "B", conf |-> 20, bbox |-> <<4, 4, 8, 8>>] }

\* A frame holds at most MaxDets detections.
MaxDets == 2

Frames == UNION {[1..n -> Detections] : n \in 0..MaxDets}

\* Mode strings the command mapping may supply, "dance" standing for any
\* string the engine does not know.
Modes == {"idle", "identify", "count", "obstacle", "banknote", "price", "dance"}

\* Detections of the repeated-frame scenario: one confident detection.
RepeatDetections ==
    [label : Labels, conf : {41, 90, 100},
     bbox : {<<0, 0, 4, 4>>, <<4, 4, 8, 8>>, <<8, 0, 12, 4>>}]

\* Detections of the frame under observation in count mode.  The first two
\* boxes overlap with IoU 0.6, the first and the third with IoU exactly 0.5,
\* the second and the third with IoU 1/3; 40 is CONF_THRESHOLD.
CountProbeDetections ==
    [label : Labels, conf : {20, 40, 90},
     bbox : {<<0, 0, 4, 4>>, <<1, 0, 5, 4>>, <<0, 0, 4, 2>>}]

\* Detections of the frame under observation in identify mode; 90 and 87
\* differ by 0.03.
IdentifyProbeDetections ==
    [label : Labels, conf : {20, 87, 90}, bbox : {<<0, 0, 4, 4>>}]

\* The frame under observation holds at most MaxProbeDets detections.
MaxProbeDets == 2

CountProbeFrames ==
    UNION {[1..n -> CountProbeDetections] : n \in 0..MaxProbeDets}

IdentifyProbeFrames ==
    UNION {[1..n -> IdentifyProbeDetections] : n \in 0..MaxProbeDets}

\* Capacity of the VoteAggregator looked at on its own, the largest number
\* of add() calls between two clear() calls, and the min_votes asked for.
AggMaxlen == 5

MaxAdds == 7

MinVotes == 1..(AggMaxlen + 1)

\* The repeated-frame scenario makes at most MaxCalls calls.
MaxCalls == 12

\* Detections of the hysteresis scenario: one above the threshold, one far
\* below it.  No mean of up to five of these confidences is exactly 0.35,
\* where the float comparison of line 71 depends on rounding.
HysteresisDetections ==
    [label : Labels, conf : {20, 41}, bbox : {<<0, 0, 4, 4>>}]

\* Frames of none, one or two of them.
HysteresisFrames == UNION {[1..n -> HysteresisDetections] : n \in 0..2}

\* The hysteresis scenario makes at most MaxHysteresisCalls calls.
MaxHysteresisCalls == 6

\* Detections of the frame whose position is announced.  Of a frame 12 wide
\* the boxes have their centers at 2, 4, 3.5, 8 and 10, so two of them lie
\* exactly on a boundary between two thirds; of a frame 10 wide none does.
\* The last box has its corners the wrong way round and its center at 5.
PositionBoxes ==
    {<<0, 0, 4, 4>>, <<2, 0, 6, 4>>, <<3, 0, 4, 4>>, <<6, 0, 10, 4>>,
     <<8, 0, 12, 4>>, <<9, 0, 1, 4>>}

PositionDetections == [label : Labels, conf : {80, 90}, bbox : PositionBoxes]

PositionFrames == UNION {[1..n -> PositionDetections] : n \in 0..2}

\* frame_shape of a frame 12 wide and of a frame 10 wide
FrameShapes == {<<12, 12, 3>>, <<12, 10, 3>>}

\* Count-mode votes cast between the identify calls of the mixed scenario.
MaxCountVotes == 3

(***************************************************************************)
(* TfliteBanknoteStub: constants and inputs                                *)
(***************************************************************************)

\* app/config.py, in hundredths where the source has a float
BANKNOTE_CONF_THRESHOLD == 30
BANKNOTE_VOTE_N == 5
BANKNOTE_VOTE_MIN == 3
BANKNOTE_MARGIN == 10

PRICE_VOTE_N == 8
PRICE_VOTE_MIN == 5

\* self._labels, cut to its first three classes
NoteLabels == <<"kein geld", "5", "10">>

\* Score vectors the classifier may put out, one score per class.
NoteScores == [1..Len(NoteLabels) -> {0, 25, 35, 50}]

VARIABLES
    now,            \* time.monotonic()
    q,              \* self._q: sequence of <<text, enqueue timestamp>>
    shutdownFlag,   \* self._shutdown
    engineLock,     \* self._engine_lock: "free" or "worker"
    lastSpoken,     \* self._last_spoken
    lastSpokenTs,   \* self._last_spoken_ts
    wpc,            \* where the worker thread is in _run_worker
    wtext,          \* the worker's local `text`
    ppc,            \* where each producer thread is
    ptext,          \* each producer's local `text` inside speak()
    rendering,      \* utterances the audio backend is rendering right now
    lastStart,      \* start time of the latest render call, -1 before the first
    lastOutcome,    \* "none", "running", "ok" or "failed": the latest render call
    sdReturned,     \* a shutdown() call has returned
    order,          \* the tickets of the entries: queued, dequeued, rendered
    votesIdentify,  \* DecisionEngine._label_votes_identify._buffer
    votesCount,     \* DecisionEngine._label_votes_count._buffer
    confHist,       \* DecisionEngine._conf_history_identify
    decision,       \* what the latest decide() call gave back
    votesNote,      \* TfliteBanknoteStub._votes._buffer
    lastLabelNote,  \* TfliteBanknoteStub._last_label
    noteDecision,   \* what the latest TfliteBanknoteStub.predict() call gave back
    interpreter,    \* TfliteBanknoteStub._interpreter: "loaded" or "none"
    price,          \* PriceEngine: _votes._buffer, _reason, the latest call
    ocrNote,        \* OcrBanknoteStub: _votes._buffer, _reason, the latest call
    repeat,         \* the repeated-frame scenario: its detection, calls made
    probe,          \* the frame of the latest decide() call under observation
    agg,            \* a VoteAggregator on its own, and what its calls returned
    overlap,        \* a _has_significant_overlap call: its boxes, what it returned
    lastObstacleUtterTime,  \* DecisionEngine._last_obstacle_utter_time
    lastSpokenText, \* main(): last_spoken_text
    ttsBackend,     \* app/speech_module.py SpeechEngine: "pyttsx3", "say", "none"
    ttsLastSpoken,  \* app/speech_module.py SpeechEngine._last_spoken
    ttsSaid         \* the text of the latest call of the backend

speechVars == <<now, q, shutdownFlag, engineLock, lastSpoken, lastSpokenTs,
                wpc, wtext, ppc, ptext, rendering, lastStart, lastOutcome,
                sdReturned, order>>

decideVars == <<votesIdentify, votesCount, confHist, decision>>

noteVars == <<votesNote, lastLabelNote, noteDecision, interpreter>>

ocrVars == <<price, ocrNote>>

scenarioVars == <<repeat, probe, agg>>

\* What no method of the components above writes.
extraVars == <<overlap, lastObstacleUtterTime, lastSpokenText, ttsBackend,
               ttsLastSpoken, ttsSaid>>

vars == <<speechVars, decideVars, noteVars, ocrVars, scenarioVars, extraVars>>

(***************************************************************************)
(* SpeechEngine: helpers                                                   *)
(***************************************************************************)

RECURSIVE LStrip(_)
LStrip(t) == IF t # <<>> /\ Head(t) = " " THEN LStrip(Tail(t)) ELSE t

RECURSIVE RStrip(_)
RStrip(t) ==
    IF t # <<>> /\ t[Len(t)] = " " THEN RStrip(SubSeq(t, 1, Len(t) - 1)) ELSE t

\* (text or "").strip()
Strip(raw) == RStrip(LStrip(IF raw = NoneText THEN <<>> ELSE raw))

\* A can_speak() that does not look at the shutdown flag.
CanSpeak_IgnoresShutdown == (now - lastSpokenTs) >= Cooldown

\* can_speak()
CanSpeak == ~shutdownFlag /\ (now - lastSpokenTs) >= Cooldown

\* A put that ignores maxsize.
PutNowait_Unbounded(queue, entry) == Append(queue, entry)

\* A put at the head of the queue.
PutNowait_Front(queue, entry) ==
    IF Len(queue) < QueueMax THEN <<entry>> \o queue ELSE queue

\* q.put_nowait(entry): the queue after the call (unchanged when queue.Full)
PutNowait(queue, entry) ==
    IF Len(queue) < QueueMax THEN Append(queue, entry) ELSE queue

\* The ticket of no entry, and the ticket of the wake entry of shutdown().
NoEntry == [id |-> 0, text |-> NoneText, old |-> FALSE]

WakeEntry == [id |-> 0, text |-> <<>>, old |-> FALSE]

\* The ticket speak() gives to the entry it puts: the next number and the text.
\* `old` becomes true when clear_queue() is called while the entry waits.
Ticket(text) == [id |-> order.next, text |-> text, old |-> FALSE]

\* The ticket once clear_queue() has been called; only the tickets handed
\* out once are marked.
Old(ticket) ==
    IF ticket.id \in 1..(MaxTickets - 1) THEN [ticket EXCEPT !.old = TRUE]
    ELSE ticket

\* No entry queued, dequeued or rendered yet; tickets from `first` on.
OrderFrom(first) ==
    [next |-> first, inq |-> <<>>, hand |-> NoEntry, last |-> 0]

\* The worker's ticket goes when its local `text` goes.
HandFollowsText ==
    order' = [order EXCEPT !.hand = IF wtext' = NoneText THEN NoEntry ELSE @]

\* A wait that ends at once.
WaitEnd_NoWait == now

\* end = now + remaining, with remaining = cooldown - (now - last_spoken_ts)
WaitEnd == now + (Cooldown - (now - lastSpokenTs))

\* The engine right after __init__.  The monotonic clock counts from boot, so
\* at least the cooldown has gone by on it when the program starts.
InitSpeech ==
    /\ now = Cooldown
    /\ q = <<>>
    /\ shutdownFlag = FALSE
    /\ engineLock = "free"
    /\ lastSpoken = NoneText
    /\ lastSpokenTs = 0
    /\ wpc = "loop"
    /\ wtext = NoneText
    /\ ppc = [p \in Producers |-> "idle"]
    /\ ptext = [p \in Producers |-> NoneText]
    /\ rendering = 0
    /\ lastStart = -1
    /\ lastOutcome = "none"
    /\ sdReturned = FALSE
    /\ order \in {OrderFrom(1), OrderFrom(MaxTickets)}

Tick ==
    /\ now < MaxTime
    /\ now' = now + 1
    /\ UNCHANGED <<q, shutdownFlag, engineLock, lastSpoken, lastSpokenTs, wpc,
                   wtext, ppc, ptext, rendering, lastStart, lastOutcome,
                   sdReturned>>
    /\ UNCHANGED <<order, decideVars, noteVars, extraVars, ocrVars, scenarioVars>>

(***************************************************************************)
(* SpeechEngine: the public API, one producer thread per caller            *)
(***************************************************************************)

\* speak(), lines 74-76: strip, return on empty text or shutdown
SpeakCall(p, raw) ==
    /\ ppc[p] = "idle"
    /\ Strip(raw) # <<>>
    /\ ~shutdownFlag
    /\ ppc' = [ppc EXCEPT ![p] = "sp_can"]
    /\ ptext' = [ptext EXCEPT ![p] = Strip(raw)]
    /\ UNCHANGED <<now, q, shutdownFlag, engineLock, lastSpoken, lastSpokenTs,
                   wpc, wtext, rendering, lastStart, lastOutcome, sdReturned>>
    /\ UNCHANGED <<order, decideVars, noteVars, extraVars, ocrVars, scenarioVars>>

\* A speak() without the cooldown check of lines 79-80.
SpeakCan_NoCooldown(p) ==
    /\ ppc[p] = "sp_can"
    /\ ppc' = [ppc EXCEPT ![p] = "sp_put"]
    /\ UNCHANGED <<now, q, shutdownFlag, engineLock, lastSpoken, lastSpokenTs,
                   wpc, wtext, ptext, rendering, lastStart, lastOutcome,
                   sdReturned>>
    /\ UNCHANGED <<order, decideVars, noteVars, extraVars, ocrVars, scenarioVars>>

\* speak(), lines 79-80: return unless can_speak()
SpeakCan(p) ==
    /\ ppc[p] = "sp_can"
    /\ ppc' = [ppc EXCEPT ![p] = IF CanSpeak THEN "sp_put" ELSE "idle"]
    /\ ptext' = [ptext EXCEPT ![p] = IF CanSpeak THEN @ ELSE NoneText]
    /\ UNCHANGED <<now, q, shutdownFlag, engineLock, lastSpoken, lastSpokenTs,
                   wpc, wtext, rendering, lastStart, lastOutcome, sdReturned>>
    /\ UNCHANGED <<order, decideVars, noteVars, extraVars, ocrVars, scenarioVars>>

\* A speak() that starts the cooldown when it puts the entry.
SpeakPut_StartsCooldown(p) ==
    /\ ppc[p] = "sp_put"
    /\ q' = PutNowait(q, <<ptext[p], now>>)
    /\ ppc' = [ppc EXCEPT ![p] = "idle"]
    /\ ptext' = [ptext EXCEPT ![p] = NoneText]
    /\ lastSpokenTs' = now
    /\ UNCHANGED <<now, shutdownFlag, engineLock, lastSpoken, wpc, wtext,
                   rendering, lastStart, lastOutcome, sdReturned>>
    /\ order' = [order EXCEPT
           !.inq = PutNowait(@, Ticket(ptext[p])),
           !.next = IF q' # q /\ @ < MaxTickets THEN @ + 1 ELSE @]
    /\ UNCHANGED <<decideVars, noteVars, extraVars, ocrVars, scenarioVars>>

\* speak(), lines 83-87: put_nowait((text, now)), dropped when the queue is full
SpeakPut(p) ==
    /\ ppc[p] = "sp_put"
    /\ q' = PutNowait(q, <<ptext[p], now>>)
    /\ ppc' = [ppc EXCEPT ![p] = "idle"]
    /\ ptext' = [ptext EXCEPT ![p] = NoneText]
    /\ UNCHANGED <<now, shutdownFlag, engineLock, lastSpoken, lastSpokenTs,
                   wpc, wtext, rendering, lastStart, lastOutcome, sdReturned>>
    /\ order' = [order EXCEPT
           !.inq = PutNowait(@, Ticket(ptext[p])),
           !.next = IF q' # q /\ @ < MaxTickets THEN @ + 1 ELSE @]
    /\ UNCHANGED <<decideVars, noteVars, extraVars, ocrVars, scenarioVars>>

\* A repeat_last() that puts the text without going through speak().
RepeatLast_Bypass(p) ==
    /\ ppc[p] = "idle"
    /\ lastSpoken # NoneText
    /\ lastSpoken # <<>>
    /\ ppc' = [ppc EXCEPT ![p] = "sp_put"]
    /\ ptext' = [ptext EXCEPT ![p] = lastSpoken]
    /\ UNCHANGED <<now, q, shutdownFlag, engineLock, lastSpoken, lastSpokenTs,
                   wpc, wtext, rendering, lastStart, lastOutcome, sdReturned>>
    /\ UNCHANGED <<order, decideVars, noteVars, extraVars, ocrVars, scenarioVars>>

\* repeat_last(): speak(self._last_spoken) when there is one
RepeatLast(p) ==
    /\ lastSpoken # NoneText
    /\ lastSpoken # <<>>
    /\ SpeakCall(p, lastSpoken)

\* stop(), lines 99-100, as called from `from`: where the caller goes next
StopEntry(from) ==
    IF shutdownFlag' THEN (IF from = "sd" THEN "sd_put" ELSE "idle")
    ELSE (IF from = "sd" THEN "sd_lock" ELSE "st_lock")

\* stop() called by a producer
StopCall(p) ==
    /\ ppc[p] = "idle"
    /\ ~shutdownFlag
    /\ UNCHANGED shutdownFlag
    /\ ppc' = [ppc EXCEPT ![p] = StopEntry("st")]
    /\ UNCHANGED <<now, q, engineLock, lastSpoken, lastSpokenTs, wpc, wtext,
                   ptext, rendering, lastStart, lastOutcome, sdReturned>>
    /\ UNCHANGED <<order, decideVars, noteVars, extraVars, ocrVars, scenarioVars>>

\* A stop() that drops the pending entries as well.
StopLocked_ClearsQueue(p) ==
    /\ ppc[p] \in {"st_lock", "sd_lock"}
    /\ engineLock = "free"
    /\ ppc' = [ppc EXCEPT ![p] = IF @ = "st_lock" THEN "idle" ELSE "sd_put"]
    /\ q' = <<>>
    /\ order' = [order EXCEPT !.inq = <<>>]
    /\ UNCHANGED <<now, shutdownFlag, engineLock, lastSpoken, lastSpokenTs,
                   wpc, wtext, ptext, rendering, lastStart, lastOutcome,
                   sdReturned>>
    /\ UNCHANGED <<decideVars, noteVars, extraVars, ocrVars, scenarioVars>>

\* stop(), lines 101-105: with the engine lock held, engine.stop()
StopLocked(p) ==
    /\ ppc[p] \in {"st_lock", "sd_lock"}
    /\ engineLock = "free"
    /\ ppc' = [ppc EXCEPT ![p] = IF @ = "st_lock" THEN "idle" ELSE "sd_put"]
    /\ UNCHANGED <<now, q, shutdownFlag, engineLock, lastSpoken, lastSpokenTs,
                   wpc, wtext, ptext, rendering, lastStart, lastOutcome,
                   sdReturned>>
    /\ UNCHANGED <<order, decideVars, noteVars, extraVars, ocrVars, scenarioVars>>

\* clear_queue() is entered
ClearCall(p) ==
    /\ ppc[p] = "idle"
    /\ ppc' = [ppc EXCEPT ![p] = "cq"]
    /\ UNCHANGED <<now, q, shutdownFlag, engineLock, lastSpoken, lastSpokenTs,
                   wpc, wtext, ptext, rendering, lastStart, lastOutcome,
                   sdReturned>>
    /\ order' = [order EXCEPT
           !.inq = [i \in DOMAIN @ |-> Old(@[i])],
           !.hand = IF wpc \in {"wait", "chk", "lock"} THEN Old(@) ELSE @]
    /\ UNCHANGED <<decideVars, noteVars, extraVars, ocrVars, scenarioVars>>

\* A clear_queue() that stops at the last entry.
ClearStep_KeepsLast(p) ==
    /\ ppc[p] = "cq"
    /\ q' = IF Len(q) > 1 THEN Tail(q) ELSE q
    /\ ppc' = [ppc EXCEPT ![p] = IF Len(q) > 1 THEN "cq" ELSE "idle"]
    /\ order' = IF Len(q) > 1 THEN [order EXCEPT !.inq = Tail(@)] ELSE order
    /\ UNCHANGED <<now, shutdownFlag, engineLock, lastSpoken, lastSpokenTs,
                   wpc, wtext, ptext, rendering, lastStart, lastOutcome,
                   sdReturned>>
    /\ UNCHANGED <<decideVars, noteVars, extraVars, ocrVars, scenarioVars>>

\* clear_queue(), one turn of its loop: get_nowait(), or queue.Empty and return
ClearStep(p) ==
    /\ ppc[p] = "cq"
    /\ q' = IF q # <<>> THEN Tail(q) ELSE q
    /\ ppc' = [ppc EXCEPT ![p] = IF q # <<>> THEN "cq" ELSE "idle"]
    /\ UNCHANGED <<now, shutdownFlag, engineLock, lastSpoken, lastSpokenTs,
                   wpc, wtext, ptext, rendering, lastStart, lastOutcome,
                   sdReturned>>
    /\ order' = IF q = <<>> THEN order ELSE [order EXCEPT !.inq = Tail(@)]
    /\ UNCHANGED <<decideVars, noteVars, extraVars, ocrVars, scenarioVars>>

\* shutdown(), lines 118-119: return when already shut down
ShutdownCall(p) ==
    /\ ppc[p] = "idle"
    /\ ~shutdownFlag
    /\ ppc' = [ppc EXCEPT ![p] = "sd_set"]
    /\ UNCHANGED <<now, q, shutdownFlag, engineLock, lastSpoken, lastSpokenTs,
                   wpc, wtext, ptext, rendering, lastStart, lastOutcome,
                   sdReturned>>
    /\ UNCHANGED <<order, decideVars, noteVars, extraVars, ocrVars, scenarioVars>>

\* shutdown(), lines 120-121: set the flag, then self.stop()
ShutdownSet(p) ==
    /\ ppc[p] = "sd_set"
    /\ shutdownFlag' = TRUE
    /\ ppc' = [ppc EXCEPT ![p] = StopEntry("sd")]
    /\ UNCHANGED <<now, q, engineLock, lastSpoken, lastSpokenTs, wpc, wtext,
                   ptext, rendering, lastStart, lastOutcome, sdReturned>>
    /\ UNCHANGED <<order, decideVars, noteVars, extraVars, ocrVars, scenarioVars>>

\* shutdown(), lines 123-126: put the wake entry, dropped when the queue is full
ShutdownPut(p) ==
    /\ ppc[p] = "sd_put"
    /\ q' = PutNowait(q, <<<<>>, now>>)
    /\ ppc' = [ppc EXCEPT ![p] = "idle"]
    /\ sdReturned' = TRUE
    /\ UNCHANGED <<now, shutdownFlag, engineLock, lastSpoken, lastSpokenTs,
                   wpc, wtext, ptext, rendering, lastStart, lastOutcome>>
    /\ order' = [order EXCEPT !.inq = PutNowait(@, WakeEntry)]
    /\ UNCHANGED <<decideVars, noteVars, extraVars, ocrVars, scenarioVars>>

(***************************************************************************)
(* SpeechEngine: the calls that return at their first test                 *)
(***************************************************************************)

\* speak(), lines 74-76, when the text is empty or shutdown is set: return.
\* The caller stands at the return with the stripped text.
SpeakNoOp(p, raw) ==
    /\ ppc[p] = "idle"
    /\ Strip(raw) = <<>> \/ shutdownFlag
    /\ ppc' = [ppc EXCEPT ![p] = "sp_ret"]
    /\ ptext' = [ptext EXCEPT ![p] = Strip(raw)]
    /\ UNCHANGED <<now, q, shutdownFlag, engineLock, lastSpoken, lastSpokenTs,
                   wpc, wtext, rendering, lastStart, lastOutcome, sdReturned>>
    /\ UNCHANGED <<order, decideVars, noteVars, extraVars, ocrVars, scenarioVars>>

\* repeat_last() when nothing was spoken yet, or when the speak() it calls
\* returns at line 76
RepeatLastNoOp(p) ==
    /\ ppc[p] = "idle"
    /\ lastSpoken \in {NoneText, <<>>} \/ shutdownFlag
    /\ ppc' = [ppc EXCEPT ![p] = "rl_ret"]
    /\ UNCHANGED <<now, q, shutdownFlag, engineLock, lastSpoken, lastSpokenTs,
                   wpc, wtext, ptext, rendering, lastStart, lastOutcome,
                   sdReturned>>
    /\ UNCHANGED <<order, decideVars, noteVars, extraVars, ocrVars, scenarioVars>>

\* stop(), lines 99-100, when shutdown is set: return
StopNoOp(p) ==
    /\ ppc[p] = "idle"
    /\ shutdownFlag
    /\ ppc' = [ppc EXCEPT ![p] = "st_ret"]
    /\ UNCHANGED <<now, q, shutdownFlag, engineLock, lastSpoken, lastSpokenTs,
                   wpc, wtext, ptext, rendering, lastStart, lastOutcome,
                   sdReturned>>
    /\ UNCHANGED <<order, decideVars, noteVars, extraVars, ocrVars, scenarioVars>>

\* A shutdown() that goes on to the wake entry when shutdown is set already.
ShutdownAgain_Repeats(p) ==
    /\ ppc[p] = "idle"
    /\ shutdownFlag
    /\ ppc' = [ppc EXCEPT ![p] = "sd_put"]
    /\ UNCHANGED <<now, q, shutdownFlag, engineLock, lastSpoken, lastSpokenTs,
                   wpc, wtext, ptext, rendering, lastStart, lastOutcome,
                   sdReturned>>
    /\ UNCHANGED <<order, decideVars, noteVars, extraVars, ocrVars, scenarioVars>>

\* shutdown(), lines 118-119, when shutdown is set already: return
ShutdownAgain(p) ==
    /\ ppc[p] = "idle"
    /\ shutdownFlag
    /\ ppc' = [ppc EXCEPT ![p] = "sd_ret"]
    /\ UNCHANGED <<now, q, shutdownFlag, engineLock, lastSpoken, lastSpokenTs,
                   wpc, wtext, ptext, rendering, lastStart, lastOutcome,
                   sdReturned>>
    /\ UNCHANGED <<order, decideVars, noteVars, extraVars, ocrVars, scenarioVars>>

\* The positions of a caller whose call returns without another statement.
ReturnPoints == {"sp_ret", "rl_ret", "st_ret", "sd_ret"}

\* The call is over; the caller is free for its next call.
CallReturns(p) ==
    /\ ppc[p] \in ReturnPoints
    /\ ppc' = [ppc EXCEPT ![p] = "idle"]
    /\ ptext' = [ptext EXCEPT ![p] = NoneText]
    /\ UNCHANGED <<now, q, shutdownFlag, engineLock, lastSpoken, lastSpokenTs,
                   wpc, wtext, rendering, lastStart, lastOutcome, sdReturned>>
    /\ UNCHANGED <<order, decideVars, noteVars, extraVars, ocrVars, scenarioVars>>

\* The calls of producer p that return at their first test.
NoOpCall(p) ==
    \/ \E raw \in InputTexts : SpeakNoOp(p, raw)
    \/ RepeatLastNoOp(p)
    \/ StopNoOp(p)
    \/ ShutdownAgain(p)
    \/ CallReturns(p)

(***************************************************************************)
(* SpeechEngine: the worker thread, _run_worker                            *)
(***************************************************************************)

\* A worker loop that never looks at the shutdown flag (while True).
WorkerLoop_NoCheck ==
    /\ wpc = "loop"
    /\ wpc' = "get"
    /\ UNCHANGED <<now, q, shutdownFlag, engineLock, lastSpoken, lastSpokenTs,
                   wtext, ppc, ptext, rendering, lastStart, lastOutcome,
                   sdReturned>>
    /\ UNCHANGED <<order, decideVars, noteVars, extraVars, ocrVars, scenarioVars>>

\* line 168: while not self._shutdown.is_set()
WorkerLoop ==
    /\ wpc = "loop"
    /\ wpc' = IF shutdownFlag THEN "done" ELSE "get"
    /\ UNCHANGED <<now, q, shutdownFlag, engineLock, lastSpoken, lastSpokenTs,
                   wtext, ppc, ptext, rendering, lastStart, lastOutcome,
                   sdReturned>>
    /\ UNCHANGED <<order, decideVars, noteVars, extraVars, ocrVars, scenarioVars>>

\* where the worker goes with a dequeued text, lines 176-187
AfterGet(text) ==
    IF Strip(text) = <<>> THEN "loop"
    ELSE IF Cooldown - (now - lastSpokenTs) > 0 THEN "wait"
    ELSE "chk"

\* lines 169-183: q.get(timeout=0.2); queue.Empty when nothing arrives in time
WorkerGet ==
    /\ wpc = "get"
    /\ IF q = <<>>
       THEN /\ wpc' = "loop"
            /\ UNCHANGED <<q, wtext>>
       ELSE /\ q' = Tail(q)
            /\ wpc' = AfterGet(Head(q)[1])
            /\ wtext' = IF AfterGet(Head(q)[1]) = "loop" THEN NoneText
                        ELSE Head(q)[1]
    /\ UNCHANGED <<now, shutdownFlag, engineLock, lastSpoken, lastSpokenTs,
                   ppc, ptext, rendering, lastStart, lastOutcome, sdReturned>>
    /\ order' = IF q = <<>> THEN order
                ELSE [order EXCEPT
                         !.inq = Tail(@),
                         !.hand = IF wtext' = NoneText THEN NoEntry
                                  ELSE Head(order.inq)]
    /\ UNCHANGED <<decideVars, noteVars, extraVars, ocrVars, scenarioVars>>

\* lines 186-187: sleep until the cooldown is over or shutdown is requested
WorkerWait ==
    /\ wpc = "wait"
    /\ ~(now < WaitEnd /\ ~shutdownFlag)
    /\ wpc' = "chk"
    /\ UNCHANGED <<now, q, shutdownFlag, engineLock, lastSpoken, lastSpokenTs,
                   wtext, ppc, ptext, rendering, lastStart, lastOutcome,
                   sdReturned>>
    /\ UNCHANGED <<order, decideVars, noteVars, extraVars, ocrVars, scenarioVars>>

\* lines 189-190: break on shutdown
WorkerCheck ==
    /\ wpc = "chk"
    /\ wpc' = IF shutdownFlag THEN "done" ELSE "lock"
    /\ wtext' = IF shutdownFlag THEN NoneText ELSE wtext
    /\ UNCHANGED <<now, q, shutdownFlag, engineLock, lastSpoken, lastSpokenTs,
                   ppc, ptext, rendering, lastStart, lastOutcome, sdReturned>>
    /\ HandFollowsText
    /\ UNCHANGED <<decideVars, noteVars, extraVars, ocrVars, scenarioVars>>

\* lines 193-195: take the engine lock; say() and runAndWait() start rendering
WorkerRenderStart ==
    /\ wpc = "lock"
    /\ engineLock = "free"
    /\ engineLock' = "worker"
    /\ wpc' = "render"
    /\ rendering' = rendering + 1
    /\ lastStart' = now
    /\ lastOutcome' = "running"
    /\ UNCHANGED <<now, q, shutdownFlag, lastSpoken, lastSpokenTs, wtext, ppc,
                   ptext, sdReturned>>
    /\ order' = [order EXCEPT !.last = order.hand.id]
    /\ UNCHANGED <<decideVars, noteVars, extraVars, ocrVars, scenarioVars>>

\* A worker that goes on while the utterance is still playing (say() without
\* waiting for runAndWait()).
WorkerRenderEnd_NoWait(ok) ==
    /\ wpc = "render"
    /\ engineLock' = "free"
    /\ lastOutcome' = IF ok THEN "ok" ELSE "failed"
    /\ wpc' = IF ok THEN "mark" ELSE "loop"
    /\ wtext' = IF ok THEN wtext ELSE NoneText
    /\ UNCHANGED <<now, q, shutdownFlag, lastSpoken, lastSpokenTs, ppc, ptext,
                   rendering, lastStart, sdReturned>>
    /\ HandFollowsText
    /\ UNCHANGED <<decideVars, noteVars, extraVars, ocrVars, scenarioVars>>

\* A worker that tries the same text again when runAndWait() raises.
WorkerRenderEnd_Retry(ok) ==
    /\ wpc = "render"
    /\ engineLock' = "free"
    /\ rendering' = rendering - 1
    /\ lastOutcome' = IF ok THEN "ok" ELSE "failed"
    /\ wpc' = IF ok THEN "mark" ELSE "chk"
    /\ UNCHANGED <<now, q, shutdownFlag, lastSpoken, lastSpokenTs, wtext, ppc,
                   ptext, lastStart, sdReturned>>
    /\ UNCHANGED <<order, decideVars, noteVars, extraVars, ocrVars, scenarioVars>>

\* A worker that marks the text as spoken whether or not runAndWait() raised.
WorkerRenderEnd_MarksFailure(ok) ==
    /\ wpc = "render"
    /\ engineLock' = "free"
    /\ rendering' = rendering - 1
    /\ lastOutcome' = IF ok THEN "ok" ELSE "failed"
    /\ wpc' = "mark"
    /\ UNCHANGED <<now, q, shutdownFlag, lastSpoken, lastSpokenTs, wtext, ppc,
                   ptext, lastStart, sdReturned>>
    /\ UNCHANGED <<order, decideVars, noteVars, extraVars, ocrVars, scenarioVars>>

\* line 195: runAndWait() returns (ok) or raises (~ok); the lock is released
WorkerRenderEnd(ok) ==
    /\ wpc = "render"
    /\ engineLock' = "free"
    /\ rendering' = rendering - 1
    /\ lastOutcome' = IF ok THEN "ok" ELSE "failed"
    /\ wpc' = IF ok THEN "mark" ELSE "loop"
    /\ wtext' = IF ok THEN wtext ELSE NoneText
    /\ UNCHANGED <<now, q, shutdownFlag, lastSpoken, lastSpokenTs, ppc, ptext,
                   lastStart, sdReturned>>
    /\ HandFollowsText
    /\ UNCHANGED <<decideVars, noteVars, extraVars, ocrVars, scenarioVars>>

\* lines 198-199: mark as last spoken only after success
WorkerMark ==
    /\ wpc = "mark"
    /\ lastSpoken' = wtext
    /\ lastSpokenTs' = now
    /\ wpc' = "loop"
    /\ wtext' = NoneText
    /\ UNCHANGED <<now, q, shutdownFlag, engineLock, ppc, ptext, rendering,
                   lastStart, lastOutcome, sdReturned>>
    /\ HandFollowsText
    /\ UNCHANGED <<decideVars, noteVars, extraVars, ocrVars, scenarioVars>>

Worker ==
    \/ WorkerLoop
    \/ WorkerGet
    \/ WorkerWait
    \/ WorkerCheck
    \/ WorkerRenderStart
    \/ \E ok \in BOOLEAN : WorkerRenderEnd(ok)
    \/ WorkerMark

Producer(p) ==
    \/ \E raw \in InputTexts : SpeakCall(p, raw)
    \/ SpeakCan(p)
    \/ SpeakPut(p)
    \/ RepeatLast(p)
    \/ StopCall(p)
    \/ StopLocked(p)
    \/ ClearCall(p)
    \/ ClearStep(p)
    \/ ShutdownCall(p)
    \/ ShutdownSet(p)
    \/ ShutdownPut(p)

(***************************************************************************)
(* VoteAggregator                                                          *)
(***************************************************************************)

\* An add() that turns the new label away when the buffer is full.
VoteAdd_DropsNewest(buf, label, maxlen) ==
    IF Len(buf) >= maxlen THEN buf ELSE Append(buf, label)

\* add(label) on a deque(maxlen): the oldest label leaves a full buffer
VoteAdd(buf, label, maxlen) ==
    IF Len(buf) >= maxlen THEN Append(Tail(buf), label) ELSE Append(buf, label)

\* How often label occurs in buf.
VoteCount(buf, label) == Cardinality({i \in 1..Len(buf) : buf[i] = label})

\* Counter(buf).most_common(1)[0][0]: the label counted most often, the one
\* that entered the buffer first among equals.
MostCommon(buf) ==
    LET labels == {buf[i] : i \in 1..Len(buf)}
        counts == [label \in labels |-> VoteCount(buf, label)]
        top == CHOOSE i \in 1..Len(buf) :
                   /\ \A label \in labels : counts[label] <= counts[buf[i]]
                   /\ \A j \in 1..(i - 1) : counts[buf[j]] < counts[buf[i]]
    IN  buf[top]

\* A majority test that asks for one vote too many.
Majority_Strict(buf, minVotes) ==
    IF Len(buf) < minVotes THEN NoLabel
    ELSE IF buf = <<>> THEN "IndexError"
    ELSE LET label == MostCommon(buf)
         IN  IF VoteCount(buf, label) > minVotes THEN label ELSE NoLabel

\* A majority that does not ask how many votes the top label has.
Majority_AnyCount(buf, minVotes) ==
    IF Len(buf) < minVotes THEN NoLabel
    ELSE IF buf = <<>> THEN "IndexError"
    ELSE MostCommon(buf)

\* majority(min_votes); most_common(1)[0] raises IndexError on an empty buffer
Majority(buf, minVotes) ==
    IF Len(buf) < minVotes THEN NoLabel
    ELSE IF buf = <<>> THEN "IndexError"
    ELSE LET label == MostCommon(buf)
         IN  IF VoteCount(buf, label) >= minVotes THEN label ELSE NoLabel

\* last(): the label added latest
VoteLast(buf) == IF buf = <<>> THEN NoLabel ELSE buf[Len(buf)]

\* clear()
VoteClear(buf) == <<>>

\* A VoteAggregator(maxlen=AggMaxlen) of its own.  agg.added is what was
\* added since the latest clear(); op, arg and result describe the latest
\* call.
InitAgg ==
    agg = [buffer |-> <<>>, added |-> <<>>, op |-> "init", arg |-> 0,
           result |-> NoLabel]

AggAdd(label) ==
    /\ Len(agg.added) < MaxAdds
    /\ agg' = [buffer |-> VoteAdd(agg.buffer, label, AggMaxlen),
               added |-> Append(agg.added, label),
               op |-> "add", arg |-> 0, result |-> NoLabel]
    /\ UNCHANGED <<speechVars, decideVars, noteVars, extraVars, ocrVars, repeat, probe>>

AggClear ==
    /\ agg' = [buffer |-> VoteClear(agg.buffer), added |-> <<>>,
               op |-> "clear", arg |-> 0, result |-> NoLabel]
    /\ UNCHANGED <<speechVars, decideVars, noteVars, extraVars, ocrVars, repeat, probe>>

AggMajority(min_votes) ==
    /\ agg' = [agg EXCEPT !.op = "majority", !.arg = min_votes,
                          !.result = Majority(agg.buffer, min_votes)]
    /\ UNCHANGED <<speechVars, decideVars, noteVars, extraVars, ocrVars, repeat, probe>>

AggLast ==
    /\ agg' = [agg EXCEPT !.op = "last", !.arg = 0,
                          !.result = VoteLast(agg.buffer)]
    /\ UNCHANGED <<speechVars, decideVars, noteVars, extraVars, ocrVars, repeat, probe>>

(***************************************************************************)
(* DecisionEngine                                                          *)
(***************************************************************************)

\* A Decision, or the exception the call raised instead.  conf is the
\* fraction <<numerator, denominator>> of hundredths.
MkDecision(text, conf) == [raised |-> "", text |-> text, conf |-> conf]

Raise(exception) == [raised |-> exception, text |-> <<>>, conf |-> <<0, 1>>]

\* _uncertain(reason)
Uncertain(reason) == MkDecision(<<reason>>, <<0, 1>>)

\* sorted(detections, key=conf, reverse=True): stable, so detections of equal
\* confidence keep their order
RECURSIVE SortedByConf(_)
SortedByConf(dets) ==
    IF dets = <<>> THEN <<>>
    ELSE LET front == SortedByConf(SubSeq(dets, 1, Len(dets) - 1))
             d == dets[Len(dets)]
             k == Cardinality({i \in 1..Len(front) : front[i].conf >= d.conf})
         IN  SubSeq(front, 1, k) \o <<d>> \o SubSeq(front, k + 1, Len(front))

Max(a, b) == IF a >= b THEN a ELSE b

Min(a, b) == IF a <= b THEN a ELSE b

\* A filter that finds no two boxes overlapping.
HasSignificantOverlap_Never(bbox1, bbox2) == FALSE

\* _has_significant_overlap(bbox1, bbox2, threshold=0.5): iou > threshold
HasSignificantOverlap(bbox1, bbox2) ==
    LET x1 == Max(bbox1[1], bbox2[1])
        y1 == Max(bbox1[2], bbox2[2])
        x2 == Min(bbox1[3], bbox2[3])
        y2 == Min(bbox1[4], bbox2[4])
        inter_area == Max(0, x2 - x1) * Max(0, y2 - y1)
        area1 == Max(0, bbox1[3] - bbox1[1]) * Max(0, bbox1[4] - bbox1[2])
        area2 == Max(0, bbox2[3] - bbox2[1]) * Max(0, bbox2[4] - bbox2[2])
        union_area == area1 + area2 - inter_area
    IN  IF inter_area <= 0 THEN FALSE
        ELSE IF union_area <= 0 THEN FALSE
        ELSE 2 * inter_area > union_area

\* A position that puts a center on the boundary into the left third.
Position_BoundaryIsLeft(bbox, frame_shape) ==
    LET width == frame_shape[2]
        twice_center_x == bbox[1] + bbox[3]
    IN  IF 3 * twice_center_x <= 2 * width THEN "links"
        ELSE IF 3 * twice_center_x > 4 * width THEN "rechts"
        ELSE "mitte"

\* _position(bbox, frame_shape): center_x against width / 3 and 2 * width / 3
Position(bbox, frame_shape) ==
    LET width == frame_shape[2]
        twice_center_x == bbox[1] + bbox[3]
    IN  IF 3 * twice_center_x < 2 * width THEN "links"
        ELSE IF 3 * twice_center_x > 4 * width THEN "rechts"
        ELSE "mitte"

\* _spoken_position(position)
SpokenPosition(position) ==
    IF position = "links" THEN "links vor dir"
    ELSE IF position = "rechts" THEN "rechts vor dir"
    ELSE "direkt vor dir"

RECURSIVE SumSeq(_)
SumSeq(s) == IF s = <<>> THEN 0 ELSE Head(s) + SumSeq(Tail(s))

\* _smoothed_conf_identify(new_conf): the history after the call
HistAfter(hist, new_conf) ==
    LET appended == Append(hist, new_conf)
    IN  IF Len(appended) > ConfMaxlenIdentify THEN Tail(appended) ELSE appended

\* An _identify that looks for a second product only when the vote buffer
\* has no stable label.
Identify_AmbiguityLast(dets, frame_shape) ==
    LET detections_sorted == SortedByConf(dets)
        top == detections_sorted[1]
        second == detections_sorted[2]
        hist == HistAfter(confHist, top.conf)
        smoothed == <<SumSeq(hist), Len(hist)>>
        votes == VoteAdd(votesIdentify, top.label, VOTE_N)
        stable_label == Majority(votes, VOTE_MIN)
    IN  IF dets = <<>>
        THEN [votes |-> votesIdentify, hist |-> confHist,
              decision |-> Uncertain("Kein Produkt im Bild")]
        ELSE IF smoothed[1] < (CONF_THRESHOLD - 5) * smoothed[2]
        THEN [votes |-> votesIdentify, hist |-> hist,
              decision |-> Uncertain(
                  "Unsicher, Kamera naeher an das Produkt halten")]
        ELSE IF stable_label # NoLabel
        THEN [votes |-> votes, hist |-> hist,
              decision |-> MkDecision(
                  <<stable_label, " ",
                    SpokenPosition(Position(top.bbox, frame_shape))>>,
                  smoothed)]
        ELSE IF /\ Len(detections_sorted) > 1
                /\ top.conf - second.conf < 5
                /\ top.label # second.label
        THEN [votes |-> votes, hist |-> hist,
              decision |-> Uncertain(
                 "Mehrere Produkte erkannt, bitte nur ein Produkt ins Bild halten")]
        ELSE [votes |-> votes, hist |-> hist,
              decision |-> Uncertain("Unsicher, bitte Kamera ruhiger halten")]

\* An _identify that announces the label of the frame's top detection once
\* the vote buffer has a stable label.
Identify_AnnouncesTop(dets, frame_shape) ==
    LET same == [votes |-> votesIdentify, hist |-> confHist]
        detections_sorted == SortedByConf(dets)
        top == detections_sorted[1]
        second == detections_sorted[2]
        hist == HistAfter(confHist, top.conf)
        smoothed == <<SumSeq(hist), Len(hist)>>
        votes == VoteAdd(votesIdentify, top.label, VOTE_N)
        stable_label == Majority(votes, VOTE_MIN)
    IN  IF dets = <<>>
        THEN same @@ [decision |-> Uncertain("Kein Produkt im Bild")]
        ELSE IF /\ Len(detections_sorted) > 1
                /\ top.conf - second.conf < 5
                /\ top.label # second.label
        THEN same @@ [decision |-> Uncertain(
                 "Mehrere Produkte erkannt, bitte nur ein Produkt ins Bild halten")]
        ELSE IF smoothed[1] < (CONF_THRESHOLD - 5) * smoothed[2]
        THEN [votes |-> votesIdentify, hist |-> hist,
              decision |-> Uncertain(
                  "Unsicher, Kamera naeher an das Produkt halten")]
        ELSE IF stable_label = NoLabel
        THEN [votes |-> votes, hist |-> hist,
              decision |-> Uncertain("Unsicher, bitte Kamera ruhiger halten")]
        ELSE [votes |-> votes, hist |-> hist,
              decision |-> MkDecision(
                  <<top.label, " ",
                    SpokenPosition(Position(top.bbox, frame_shape))>>,
                  smoothed)]

\* An _identify that casts its vote before the hysteresis check.
Identify_VotesFirst(dets, frame_shape) ==
    LET same == [votes |-> votesIdentify, hist |-> confHist]
        detections_sorted == SortedByConf(dets)
        top == detections_sorted[1]
        second == detections_sorted[2]
        hist == HistAfter(confHist, top.conf)
        smoothed == <<SumSeq(hist), Len(hist)>>
        votes == VoteAdd(votesIdentify, top.label, VOTE_N)
        stable_label == Majority(votes, VOTE_MIN)
    IN  IF dets = <<>>
        THEN same @@ [decision |-> Uncertain("Kein Produkt im Bild")]
        ELSE IF /\ Len(detections_sorted) > 1
                /\ top.conf - second.conf < 5
                /\ top.label # second.label
        THEN same @@ [decision |-> Uncertain(
                 "Mehrere Produkte erkannt, bitte nur ein Produkt ins Bild halten")]
        ELSE IF smoothed[1] < (CONF_THRESHOLD - 5) * smoothed[2]
        THEN [votes |-> votes, hist |-> hist,
              decision |-> Uncertain(
                  "Unsicher, Kamera naeher an das Produkt halten")]
        ELSE IF stable_label = NoLabel
        THEN [votes |-> votes, hist |-> hist,
              decision |-> Uncertain("Unsicher, bitte Kamera ruhiger halten")]
        ELSE [votes |-> votes, hist |-> hist,
              decision |-> MkDecision(
                  <<stable_label, " ",
                    SpokenPosition(Position(top.bbox, frame_shape))>>,
                  smoothed)]

\* _identify(detections, frame_shape): the decision and the state it leaves
Identify(dets, frame_shape) ==
    LET same == [votes |-> votesIdentify, hist |-> confHist]
        detections_sorted == SortedByConf(dets)
        top == detections_sorted[1]
        second == detections_sorted[2]
        hist == HistAfter(confHist, top.conf)
        \* smoothed_conf = sum / len, as a fraction
        smoothed == <<SumSeq(hist), Len(hist)>>
        votes == VoteAdd(votesIdentify, top.label, VOTE_N)
        stable_label == Majority(votes, VOTE_MIN)
    IN  IF dets = <<>>
        THEN same @@ [decision |-> Uncertain("Kein Produkt im Bild")]
        ELSE IF /\ Len(detections_sorted) > 1
                /\ top.conf - second.conf < 5
                /\ top.label # second.label
        THEN same @@ [decision |-> Uncertain(
                 "Mehrere Produkte erkannt, bitte nur ein Produkt ins Bild halten")]
        ELSE IF smoothed[1] < (CONF_THRESHOLD - 5) * smoothed[2]
        THEN [votes |-> votesIdentify, hist |-> hist,
              decision |-> Uncertain(
                  "Unsicher, Kamera naeher an das Produkt halten")]
        ELSE IF stable_label = NoLabel
        THEN [votes |-> votes, hist |-> hist,
              decision |-> Uncertain("Unsicher, bitte Kamera ruhiger halten")]
        ELSE [votes |-> votes, hist |-> hist,
              decision |-> MkDecision(
                  <<stable_label, " ",
                    SpokenPosition(Position(top.bbox, frame_shape))>>,
                  smoothed)]

\* _count, lines 98-105: the detections kept out of the first n sorted ones
RECURSIVE Filtered(_, _)
Filtered(sorted, n) ==
    IF n = 0 THEN <<>>
    ELSE LET filtered == Filtered(sorted, n - 1)
             det == sorted[n]
             is_duplicate ==
                 \E i \in 1..Len(filtered) :
                     HasSignificantOverlap(det.bbox, filtered[i].bbox)
         IN  IF ~is_duplicate /\ det.conf >= CONF_THRESHOLD
             THEN Append(filtered, det) ELSE filtered

\* label_counts.get(label, 0)
LabelCount(filtered, label) ==
    Cardinality({i \in 1..Len(filtered) : filtered[i].label = label})

\* A dominant label that is the last label met among equals.
DominantLabel_Last(filtered) ==
    LET counts == [i \in 1..Len(filtered) |->
                      LabelCount(filtered, filtered[i].label)]
        last == CHOOSE i \in 1..Len(filtered) :
                    /\ \A j \in 1..Len(filtered) : counts[j] <= counts[i]
                    /\ \A j \in (i + 1)..Len(filtered) : counts[j] < counts[i]
    IN  filtered[last].label

\* max(label_counts.items(), key=count)[0]: the first label met among equals
DominantLabel(filtered) ==
    LET counts == [i \in 1..Len(filtered) |->
                      LabelCount(filtered, filtered[i].label)]
        first == CHOOSE i \in 1..Len(filtered) :
                     /\ \A j \in 1..Len(filtered) : counts[j] <= counts[i]
                     /\ \A j \in 1..(i - 1) : counts[j] < counts[i]
    IN  filtered[first].label

\* 1.0 if stable_label is not None else 0.6
CountConf(stable_label) == IF stable_label # NoLabel THEN <<100, 1>> ELSE <<60, 1>>

\* _count(detections): the decision and the state it leaves
Count(dets) ==
    LET filtered == Filtered(SortedByConf(dets), Len(dets))
        dominant_label == DominantLabel(filtered)
        votes == VoteAdd(votesCount, dominant_label, VOTE_N)
        stable_label == Majority(votes, VOTE_MIN)
        chosen_label == IF LabelCount(filtered, stable_label) > 0
                        THEN stable_label ELSE dominant_label
        count == LabelCount(filtered, chosen_label)
    IN  IF dets = <<>>
        THEN [votes |-> votesCount,
              decision |-> Uncertain("Keine Produkte im Bild")]
        ELSE IF filtered = <<>>
        THEN [votes |-> votesCount,
              decision |-> Uncertain(
                  "Unsicher beim Zaehlen, bitte Kamera naeher an die Produkte halten")]
        ELSE IF count = 0
        THEN [votes |-> votes,
              decision |-> Uncertain(
                  "Unsicher beim Zaehlen, bitte leicht die Perspektive aendern")]
        ELSE [votes |-> votes,
              decision |-> MkDecision(<<count, " ", chosen_label>>,
                                      CountConf(stable_label))]

InitDecide ==
    /\ votesIdentify = <<>>
    /\ votesCount = <<>>
    /\ confHist = <<>>
    /\ decision = MkDecision(<<>>, <<0, 1>>)
    /\ lastObstacleUtterTime = 0

\* A decide() with one aggregator for both modes: count mode leaves its votes
\* in the identify buffer as well.
DecideCall_SharedVotes(mode, dets, frame_shape) ==
    IF mode = "identify"
    THEN LET r == Identify(dets, frame_shape)
         IN  /\ votesIdentify' = r.votes
             /\ confHist' = r.hist
             /\ decision' = r.decision
             /\ UNCHANGED votesCount
    ELSE IF mode = "count"
    THEN LET r == Count(dets)
         IN  /\ votesCount' = r.votes
             /\ votesIdentify' = r.votes
             /\ decision' = r.decision
             /\ UNCHANGED confHist
    ELSE IF mode = "obstacle"
    THEN /\ decision' = Raise("AttributeError")
         /\ UNCHANGED <<votesIdentify, votesCount, confHist>>
    ELSE /\ decision' = MkDecision(<<>>, <<0, 1>>)
         /\ UNCHANGED <<votesIdentify, votesCount, confHist>>

\* decide(mode, detections, frame_shape).  _obstacle is commented out
\* (lines 144-204), so looking it up raises AttributeError.
DecideCall(mode, dets, frame_shape) ==
    IF mode = "identify"
    THEN LET r == Identify(dets, frame_shape)
         IN  /\ votesIdentify' = r.votes
             /\ confHist' = r.hist
             /\ decision' = r.decision
             /\ UNCHANGED votesCount
    ELSE IF mode = "count"
    THEN LET r == Count(dets)
         IN  /\ votesCount' = r.votes
             /\ decision' = r.decision
             /\ UNCHANGED <<votesIdentify, confHist>>
    ELSE IF mode = "obstacle"
    THEN /\ decision' = Raise("AttributeError")
         /\ UNCHANGED <<votesIdentify, votesCount, confHist>>
    ELSE /\ decision' = MkDecision(<<>>, <<0, 1>>)
         /\ UNCHANGED <<votesIdentify, votesCount, confHist>>

\* One decide() call of the frame loop.
Decide(mode, dets) ==
    /\ DecideCall(mode, dets, FrameShape)
    /\ UNCHANGED <<speechVars, noteVars, extraVars, ocrVars, scenarioVars>>

\* The repeated-frame scenario: decide("identify", [det]) once more, on an
\* engine that has seen nothing else.
InitRepeat == repeat \in [det : RepeatDetections, calls : {0}]

RepeatIdentify ==
    /\ repeat.calls < MaxCalls
    /\ probe.calls = 0
    /\ DecideCall("identify", <<repeat.det>>, FrameShape)
    /\ repeat' = [repeat EXCEPT !.calls = @ + 1]
    /\ UNCHANGED <<speechVars, noteVars, extraVars, ocrVars, probe, agg>>

\* Outside the scenario the variable stays as it is.
NoRepeat ==
    repeat = [det |-> [label |-> "A", conf |-> 90, bbox |-> <<0, 0, 4, 4>>],
              calls |-> 0]

\* The repeated-frame scenario in count mode.
RepeatCount ==
    /\ repeat.calls < MaxCalls
    /\ probe.calls = 0
    /\ DecideCall("count", <<repeat.det>>, FrameShape)
    /\ repeat' = [repeat EXCEPT !.calls = @ + 1]
    /\ UNCHANGED <<speechVars, noteVars, extraVars, ocrVars, probe, agg>>

\* The repeated-frame scenario with the detection in one place.
InitRepeatInPlace == InitRepeat /\ repeat.det.bbox = <<0, 0, 4, 4>>

\* No decide() call is under observation.
NoProbe ==
    probe = [frame |-> <<>>, calls |-> 0,
             before |-> [votesIdentify |-> <<>>, votesCount |-> <<>>,
                         confHist |-> <<>>]]

\* The decide() call under observation, made once the repeated frames are
\* over: the frame it was given and the engine state it found are kept.
ProbeDecide(mode, dets) ==
    /\ probe.calls = 0
    /\ DecideCall(mode, dets, FrameShape)
    /\ probe' = [frame |-> dets, calls |-> 1,
                 before |-> [votesIdentify |-> votesIdentify,
                             votesCount |-> votesCount,
                             confHist |-> confHist]]
    /\ UNCHANGED <<speechVars, noteVars, extraVars, ocrVars, repeat, agg>>

(***************************************************************************)
(* TfliteBanknoteStub                                                      *)
(***************************************************************************)

\* Decision(text_to_say, debug_text, conf), debug_text cut to its first word
NoteDecision(text, debug, conf) == [text |-> text, debug |-> debug, conf |-> conf]

\* float(np.max(scores))
MaxScore(scores) ==
    CHOOSE v \in {scores[i] : i \in DOMAIN scores} :
        \A i \in DOMAIN scores : scores[i] <= v

\* int(np.argmax(scores)): the first index of the largest score
ArgMax(scores) ==
    CHOOSE i \in DOMAIN scores :
        /\ scores[i] = MaxScore(scores)
        /\ \A j \in 1..(i - 1) : scores[j] < scores[i]

\* scores[top2[0]] - scores[top2[1]]: the largest score minus the runner-up
Margin(scores) ==
    LET rest == {scores[i] : i \in DOMAIN scores \ {ArgMax(scores)}}
    IN  MaxScore(scores) - (CHOOSE v \in rest : \A w \in rest : w <= v)

\* stable.lower().replace(" ", "") on the class names of NoteLabels
NoteNorm(label) == IF label = "kein geld" THEN "keingeld" ELSE label

\* A predict() that empties the vote buffer at every change of the top label,
\* whatever its confidence.
NotePredict_ClearsAtAnySwitch(scores) ==
    LET conf == MaxScore(scores)
        label == NoteLabels[ArgMax(scores)]
        margin == Margin(scores)
        cleared == IF /\ lastLabelNote # NoLabel
                      /\ label # lastLabelNote
                   THEN <<>> ELSE votesNote
        votes == VoteAdd(cleared, label, BANKNOTE_VOTE_N)
        majority == Majority(votes, BANKNOTE_VOTE_MIN)
        stable == IF /\ majority = NoLabel
                     /\ conf >= BANKNOTE_CONF_THRESHOLD
                     /\ margin >= BANKNOTE_MARGIN
                  THEN label ELSE majority
    IN  [votes |-> votes, last_label |-> label,
         decision |->
             IF \/ conf < BANKNOTE_CONF_THRESHOLD
                \/ stable = NoLabel
                \/ margin < BANKNOTE_MARGIN
             THEN NoteDecision(
                      <<"Unsicher. Bitte Schein flach halten und nah an die Kamera.">>,
                      "tflite_uncertain", conf)
             ELSE IF NoteNorm(stable) \in {"keingeld", "nogeld", "none", "nomoney", "0"}
             THEN NoteDecision(<<"Kein Geld erkannt.">>, "tflite_none", conf)
             ELSE NoteDecision(<<stable, " Euro.">>, "tflite", conf)]

\* predict(frame), lines 87-120, for the scores the interpreter put out: the
\* decision and the state it leaves
NotePredict(scores) ==
    LET conf == MaxScore(scores)
        label == NoteLabels[ArgMax(scores)]
        margin == Margin(scores)
        cleared == IF /\ lastLabelNote # NoLabel
                      /\ label # lastLabelNote
                      /\ conf >= BANKNOTE_CONF_THRESHOLD
                   THEN <<>> ELSE votesNote
        votes == VoteAdd(cleared, label, BANKNOTE_VOTE_N)
        majority == Majority(votes, BANKNOTE_VOTE_MIN)
        stable == IF /\ majority = NoLabel
                     /\ conf >= BANKNOTE_CONF_THRESHOLD
                     /\ margin >= BANKNOTE_MARGIN
                  THEN label ELSE majority
    IN  [votes |-> votes, last_label |-> label,
         decision |->
             IF \/ conf < BANKNOTE_CONF_THRESHOLD
                \/ stable = NoLabel
                \/ margin < BANKNOTE_MARGIN
             THEN NoteDecision(
                      <<"Unsicher. Bitte Schein flach halten und nah an die Kamera.">>,
                      "tflite_uncertain", conf)
             ELSE IF NoteNorm(stable) \in {"keingeld", "nogeld", "none", "nomoney", "0"}
             THEN NoteDecision(<<"Kein Geld erkannt.">>, "tflite_none", conf)
             ELSE NoteDecision(<<stable, " Euro.">>, "tflite", conf)]

\* __init__: the interpreter is loaded, or the runtime or the model is missing
InitNote ==
    /\ votesNote = <<>>
    /\ lastLabelNote = NoLabel
    /\ noteDecision = NoteDecision(<<>>, "", 0)
    /\ interpreter \in {"loaded", "none"}

\* predict(frame); inference gives scores, or raises (~ok)
Predict(scores, ok) ==
    /\ IF interpreter = "none" \/ ~ok
       THEN /\ noteDecision' = NoteDecision(<<>>, "tflite_unavailable", 0)
            /\ UNCHANGED <<votesNote, lastLabelNote>>
       ELSE LET r == NotePredict(scores)
            IN  /\ votesNote' = r.votes
                /\ lastLabelNote' = r.last_label
                /\ noteDecision' = r.decision
    /\ UNCHANGED <<interpreter, speechVars, decideVars, scenarioVars, ocrVars, extraVars>>


(***************************************************************************)
(* DecisionEngine: the helper functions called on their own                *)
(***************************************************************************)

\* The x or y extent of a box, as <<lower, upper>>: plain, touching the
\* first, empty, turned round, inside the first, far away.
Extents == {<<0, 10>>, <<10, 20>>, <<5, 5>>, <<9, 1>>, <<1, 9>>, <<20, 30>>}

\* Tuple[int, int, int, int]: nothing makes x1 <= x2 or y1 <= y2
Boxes == {<<x[1], y[1], x[2], y[2]>> : x \in Extents, y \in Extents}

\* inter_area / union_area: the quotient as a fraction, or the exception
Divide(num, den) ==
    IF den = 0 THEN [raised |-> "ZeroDivisionError", num |-> 0, den |-> 1]
    ELSE [raised |-> "", num |-> num, den |-> den]

\* An overlap test that divides before it looks at the areas.
OverlapReturn_Unguarded(bbox1, bbox2) ==
    LET x1 == Max(bbox1[1], bbox2[1])
        y1 == Max(bbox1[2], bbox2[2])
        x2 == Min(bbox1[3], bbox2[3])
        y2 == Min(bbox1[4], bbox2[4])
        inter_area == Max(0, x2 - x1) * Max(0, y2 - y1)
        area1 == Max(0, bbox1[3] - bbox1[1]) * Max(0, bbox1[4] - bbox1[2])
        area2 == Max(0, bbox2[3] - bbox2[1]) * Max(0, bbox2[4] - bbox2[2])
        union_area == area1 + area2 - inter_area
        iou == Divide(inter_area, union_area)
    IN  IF iou.raised # "" THEN iou.raised
        ELSE IF 2 * iou.num > iou.den THEN "True" ELSE "False"

\* _has_significant_overlap(bbox1, bbox2), lines 248-268, as the caller sees
\* it: "True", "False", or the exception the division at line 267 raises
OverlapReturn(bbox1, bbox2) ==
    LET x1 == Max(bbox1[1], bbox2[1])
        y1 == Max(bbox1[2], bbox2[2])
        x2 == Min(bbox1[3], bbox2[3])
        y2 == Min(bbox1[4], bbox2[4])
        inter_area == Max(0, x2 - x1) * Max(0, y2 - y1)
        area1 == Max(0, bbox1[3] - bbox1[1]) * Max(0, bbox1[4] - bbox1[2])
        area2 == Max(0, bbox2[3] - bbox2[1]) * Max(0, bbox2[4] - bbox2[2])
        union_area == area1 + area2 - inter_area
        iou == Divide(inter_area, union_area)
    IN  IF inter_area <= 0 THEN "False"
        ELSE IF union_area <= 0 THEN "False"
        ELSE IF iou.raised # "" THEN iou.raised
        ELSE IF 2 * iou.num > iou.den THEN "True" ELSE "False"

\* The boxes of the next _has_significant_overlap call, nothing returned yet.
InitOverlap == overlap \in [bbox1 : Boxes, bbox2 : Boxes, result : {""}]

\* No _has_significant_overlap call is looked at.
NoCall ==
    overlap = [bbox1 |-> <<0, 0, 10, 10>>, bbox2 |-> <<0, 0, 10, 10>>,
               result |-> ""]

\* self._has_significant_overlap(bbox1, bbox2)
OverlapCall ==
    /\ overlap.result = ""
    /\ overlap' = [overlap EXCEPT
                       !.result = OverlapReturn(overlap.bbox1, overlap.bbox2)]
    /\ UNCHANGED <<speechVars, decideVars, noteVars, ocrVars, scenarioVars>>
    /\ UNCHANGED <<lastObstacleUtterTime, lastSpokenText, ttsBackend,
                   ttsLastSpoken, ttsSaid>>

(***************************************************************************)
(* main(): the frame loop and the SpeechEngine of app/speech_module.py     *)
(***************************************************************************)

\* app/config.py SPEAK_COOLDOWN_S
SPEAK_COOLDOWN_S == 2

\* The text_to_say of the Decision of a frame: empty, blank, or one of two
\* announcements.
LoopTexts == {<<>>, <<" ">>, <<"a">>, <<"b">>}

\* What __init__ finds: pyttsx3, the say command of macOS, or neither.
Backends == {"pyttsx3", "say", "none"}

\* A render call takes no time on the clock, or a second.
RenderTimes == {0, 1}

\* last_spoken_text = "" and SpeechEngine(): _last_spoken = 0.0
InitLoop ==
    /\ lastSpokenText = <<>>
    /\ ttsBackend = "pyttsx3"
    /\ ttsLastSpoken = 0
    /\ ttsSaid = <<>>

\* The frame loop on a machine with any of the backends.
InitLoopAny ==
    /\ lastSpokenText = <<>>
    /\ ttsBackend \in Backends
    /\ ttsLastSpoken = 0
    /\ ttsSaid = <<>>

\* can_speak(), lines 36-39
TtsCanSpeak ==
    /\ ttsBackend # "none"
    /\ (now - ttsLastSpoken) >= SPEAK_COOLDOWN_S

\* speak(text), lines 41-66: the text is rendered on the calling thread,
\* which takes `took` seconds; the call to the backend returns (ok) or
\* raises (~ok).  The time of the clock, _last_spoken and the text the
\* backend was called with, after the call.
TtsSpeak(text, took, ok) ==
    IF text = <<>> \/ ~TtsCanSpeak
    THEN [now |-> now, last_spoken |-> ttsLastSpoken, said |-> ttsSaid]
    ELSE [now |-> now + took,
          last_spoken |-> IF ok THEN now + took ELSE ttsLastSpoken,
          said |-> text]

\* The clock after the call, and everything the frame loop and its
\* SpeechEngine do not touch.
LoopSpeakCall(text, took, ok) ==
    /\ now + took <= MaxTime
    /\ now' = TtsSpeak(text, took, ok).now
    /\ ttsLastSpoken' = TtsSpeak(text, took, ok).last_spoken
    /\ ttsSaid' = TtsSpeak(text, took, ok).said
    /\ UNCHANGED <<q, shutdownFlag, engineLock, lastSpoken, lastSpokenTs, wpc,
                   wtext, ppc, ptext, rendering, lastStart, lastOutcome,
                   sdReturned>>
    /\ UNCHANGED <<order, decideVars, noteVars, ocrVars, scenarioVars>>
    /\ UNCHANGED <<overlap, lastObstacleUtterTime, ttsBackend>>

\* A frame loop that does not keep the text it has submitted.
LoopDecision_ForgetsText(text, took, ok) ==
    /\ text # <<>>
    /\ text # lastSpokenText
    /\ TtsCanSpeak
    /\ LoopSpeakCall(text, took, ok)
    /\ UNCHANGED lastSpokenText

\* main(), lines 155-157 (and 164-166, 172-174): the Decision of this frame
\* passes the test, is handed to speak() and is kept.  A frame whose
\* Decision does not pass the test changes nothing.
LoopDecision(text, took, ok) ==
    /\ text # <<>>
    /\ text # lastSpokenText
    /\ TtsCanSpeak
    /\ LoopSpeakCall(text, took, ok)
    /\ lastSpokenText' = text

\* main(), lines 131-142: the keys p and t hand the text of an OCR result
\* to speak() without the test and without keeping it.
LoopKeySpeak(text, took, ok) ==
    /\ text # <<>>
    /\ LoopSpeakCall(text, took, ok)
    /\ UNCHANGED lastSpokenText

(***************************************************************************)
(* Specifications                                                          *)
(***************************************************************************)

\* Frames for the modes that never look at the detections.
SmallFrames == {dets \in Frames : Len(dets) <= 1}

\* Modes decide() does not tell apart from "idle", and "obstacle".
OtherModes == Modes \ {"identify", "count"}

(***************************************************************************)
(* PriceEngine and OcrBanknoteStub                                         *)
(***************************************************************************)

Digits == {"0", "1", "2", "3", "4", "5", "6", "7", "8", "9"}

\* What pytesseract may read off a frame, character by character.
PriceTexts ==
    {<<"-">>, <<"1", ".", "9", "9">>, <<"-", "1", ",", "9", "9">>,
     <<"1", ".", "9">>}

OcrNoteTexts == {<<"2">>, <<"1", "0", "0">>}

\* self._reason: None, or why OCR is not available
Reasons == {NoLabel, "pytesseract missing"}

\* The strings the searches can give back, spelled out.
PriceSpelled ==
    [name \in {"1,99", "1"} |->
        IF name = "1" THEN <<"1">> ELSE <<"1", ",", "9", "9">>]

OcrNoteSpelled ==
    [name \in {"5", "10", "20", "50", "100"} |->
        IF name = "5" THEN <<"5">>
        ELSE IF name = "10" THEN <<"1", "0">>
        ELSE IF name = "20" THEN <<"2", "0">>
        ELSE IF name = "50" THEN <<"5", "0">>
        ELSE <<"1", "0", "0">>]

\* The string with these characters.
Str(chars, spelled) == CHOOSE name \in DOMAIN spelled : spelled[name] = chars

\* The smallest number of a non-empty set.
Least(S) == CHOOSE i \in S : \A j \in S : i <= j

\* re.search(r"(\d+[\.,]\d{2}|\d+)", text): the leftmost run of digits, with a
\* point or comma and two more digits when they follow it
PriceSearch(text) ==
    LET starts == {i \in 1..Len(text) : text[i] \in Digits}
        i == Least(starts)
        j == Least({k \in i..Len(text) :
                       k = Len(text) \/ text[k + 1] \notin Digits})
        decimals == /\ j + 3 <= Len(text)
                    /\ text[j + 1] \in {".", ","}
                    /\ text[j + 2] \in Digits
                    /\ text[j + 3] \in Digits
    IN  IF starts = {} THEN [found |-> FALSE, chars |-> <<>>]
        ELSE [found |-> TRUE,
              chars |-> SubSeq(text, i, IF decimals THEN j + 3 ELSE j)]

\* match.group(1).replace(".", ",")
WithComma(chars) ==
    [k \in 1..Len(chars) |-> IF chars[k] = "." THEN "," ELSE chars[k]]

\* The alternatives of r"(5|10|20|50|100)", in the order they are tried.
OcrNoteAlternatives ==
    << <<"5">>, <<"1", "0">>, <<"2", "0">>, <<"5", "0">>, <<"1", "0", "0">> >>

MatchesAt(text, i, alt) ==
    /\ i + Len(alt) - 1 <= Len(text)
    /\ SubSeq(text, i, i + Len(alt) - 1) = alt

\* re.search(r"(5|10|20|50|100)", text): the leftmost place where an
\* alternative matches, and the first alternative that matches there
OcrNoteSearch(text) ==
    LET fits(i) == {k \in 1..Len(OcrNoteAlternatives) :
                       MatchesAt(text, i, OcrNoteAlternatives[k])}
        hits == {i \in 1..Len(text) : fits(i) # {}}
    IN  IF hits = {} THEN [found |-> FALSE, chars |-> <<>>]
        ELSE [found |-> TRUE,
              chars |-> OcrNoteAlternatives[Least(fits(Least(hits)))]]

\* An engine right after __init__; no predict() call has returned yet.
NewReader(reason) ==
    [votes |-> <<>>, reason |-> reason, decision |-> NoteDecision(<<>>, "", 0)]

\* Both engines as constructed, pytesseract installed or not.
InitOcr ==
    /\ price \in {NewReader(reason) : reason \in Reasons}
    /\ ocrNote \in {NewReader(reason) : reason \in Reasons}

\* Both engines as constructed with pytesseract installed.
NoOcr ==
    /\ price = NewReader(NoLabel)
    /\ ocrNote = NewReader(NoLabel)

PriceNotRecognized(debug) ==
    NoteDecision(<<"Preis nicht erkannt. Bitte Preisschild nah und ruhig halten.">>,
                 debug, 0)

\* A price engine that announces what it read in this frame.
PriceRead_Latest(text) ==
    LET match == PriceSearch(text)
        value == Str(WithComma(match.chars), PriceSpelled)
    IN  IF ~match.found
        THEN [votes |-> price.votes,
              decision |-> PriceNotRecognized("price_no_match")]
        ELSE [votes |-> VoteAdd(price.votes, value, PRICE_VOTE_N),
              decision |-> NoteDecision(<<"Preis ", value, " Euro.">>,
                                        "price", 100)]

\* PriceEngine.predict, lines 46-62, for the text OCR read
PriceRead(text) ==
    LET match == PriceSearch(text)
        value == Str(WithComma(match.chars), PriceSpelled)
        votes == VoteAdd(price.votes, value, PRICE_VOTE_N)
        stable == Majority(votes, PRICE_VOTE_MIN)
    IN  IF ~match.found
        THEN [votes |-> price.votes,
              decision |-> PriceNotRecognized("price_no_match")]
        ELSE IF stable = NoLabel
        THEN [votes |-> votes,
              decision |-> NoteDecision(
                  <<"Unsicher. Bitte Preisschild ruhiger halten.">>,
                  "price_unstable", 0)]
        ELSE [votes |-> votes,
              decision |-> NoteDecision(<<"Preis ", stable, " Euro.">>,
                                        "price", 100)]

\* PriceEngine.predict(frame); OCR reads text off the frame, or raises (~ok)
PricePredict(text, ok) ==
    /\ LET r == IF price.reason # NoLabel
                THEN [votes |-> price.votes,
                      decision |-> PriceNotRecognized(price.reason)]
                ELSE IF ~ok
                THEN [votes |-> price.votes,
                      decision |-> PriceNotRecognized("price_error")]
                ELSE PriceRead(text)
       IN  price' = [votes |-> r.votes, reason |-> price.reason,
                     decision |-> r.decision]
    /\ UNCHANGED <<ocrNote, speechVars, decideVars, noteVars, extraVars, scenarioVars>>

OcrNoteUncertain(debug) ==
    NoteDecision(<<"Unsicher. Bitte Schein flach halten und nah an die Kamera.">>,
                 debug, 0)

\* OcrBanknoteStub.predict, lines 41-57, for the text OCR read
OcrNoteRead(text) ==
    LET match == OcrNoteSearch(text)
        label == Str(match.chars, OcrNoteSpelled)
        votes == VoteAdd(ocrNote.votes, label, BANKNOTE_VOTE_N)
        stable == Majority(votes, BANKNOTE_VOTE_MIN)
    IN  IF ~match.found
        THEN [votes |-> ocrNote.votes,
              decision |-> OcrNoteUncertain("ocr_no_match")]
        ELSE IF stable = NoLabel
        THEN [votes |-> votes, decision |-> OcrNoteUncertain("ocr_unstable")]
        ELSE [votes |-> votes,
              decision |-> NoteDecision(<<stable, " Euro.">>, "ocr", 100)]

\* OcrBanknoteStub.predict(frame); OCR reads text off the frame, or raises
OcrNotePredict(text, ok) ==
    /\ LET r == IF ocrNote.reason # NoLabel \/ ~ok
                THEN [votes |-> ocrNote.votes,
                      decision |-> NoteDecision(<<>>, "ocr_unavailable:", 0)]
                ELSE OcrNoteRead(text)
       IN  ocrNote' = [votes |-> r.votes, reason |-> ocrNote.reason,
                       decision |-> r.decision]
    /\ UNCHANGED <<price, speechVars, decideVars, noteVars, extraVars, scenarioVars>>

\* Every component as constructed; the scenario variable at rest.
Init ==
    /\ InitSpeech
    /\ order = OrderFrom(MaxTickets)
    /\ InitDecide
    /\ InitNote
    /\ interpreter = "loaded"
    /\ NoRepeat
    /\ NoProbe
    /\ InitAgg
    /\ InitLoop
    /\ NoCall
    /\ NoOcr

\* The speech engine: its callers, its worker and the clock.
NextSpeech == Tick \/ Worker \/ \E p \in Producers : Producer(p)

SpecSpeech == Init /\ [][NextSpeech]_vars

\* The worker is scheduled fairly and every render call returns.
FairSpeech == SpecSpeech /\ WF_vars(Worker)

\* The decision engine called frame after frame in every mode but identify.
NextCount ==
    \/ \E dets \in Frames : Decide("count", dets)
    \/ \E mode \in OtherModes, dets \in SmallFrames : Decide(mode, dets)

SpecCount == Init /\ [][NextCount]_vars

\* A fresh decision engine given one confident detection again and again.
InitScenario ==
    /\ InitSpeech
    /\ order = OrderFrom(MaxTickets)
    /\ InitDecide
    /\ InitNote
    /\ interpreter = "loaded"
    /\ InitRepeat
    /\ NoProbe
    /\ InitAgg
    /\ InitLoop
    /\ NoCall
    /\ NoOcr

SpecRepeat == InitScenario /\ [][RepeatIdentify]_vars

\* Any frame given to decide("identify") after the repeated frames.
InitProbe ==
    /\ InitSpeech
    /\ order = OrderFrom(MaxTickets)
    /\ InitDecide
    /\ InitNote
    /\ interpreter = "loaded"
    /\ InitRepeatInPlace
    /\ NoProbe
    /\ InitAgg
    /\ InitLoop
    /\ NoCall
    /\ NoOcr

NextProbeIdentify ==
    \/ RepeatIdentify
    \/ \E dets \in IdentifyProbeFrames : ProbeDecide("identify", dets)

SpecProbeIdentify == InitProbe /\ [][NextProbeIdentify]_vars

\* Any frame given to decide("count") after the repeated frames; count mode
\* looks at the confidence of a detection only to compare it with the
\* threshold, so the repeated detection has one confidence.
InitProbeCount == InitProbe /\ repeat.det.conf = 90

NextProbeCount ==
    \/ RepeatCount
    \/ \E dets \in CountProbeFrames : ProbeDecide("count", dets)

SpecProbeCount == InitProbeCount /\ [][NextProbeCount]_vars

\* The banknote classifier, with or without its interpreter, called frame
\* after frame.
InitClassifier ==
    /\ InitSpeech
    /\ order = OrderFrom(MaxTickets)
    /\ InitDecide
    /\ InitNote
    /\ NoRepeat
    /\ NoProbe
    /\ InitAgg
    /\ InitLoop
    /\ NoCall
    /\ NoOcr

\* The speech engine with the first entries told apart by their tickets.
InitTickets ==
    /\ InitSpeech
    /\ order = OrderFrom(1)
    /\ InitDecide
    /\ InitNote
    /\ interpreter = "loaded"
    /\ NoRepeat
    /\ NoProbe
    /\ InitAgg
    /\ InitLoop
    /\ NoCall
    /\ NoOcr

SpecTickets == InitTickets /\ [][NextSpeech]_vars

\* The speech engine with the calls that return at their first test as steps
\* of their own.
NextCalls == NextSpeech \/ \E p \in Producers : NoOpCall(p)

SpecCalls == Init /\ [][NextCalls]_vars

\* The repeated identify frame with calls in the other modes in between, count
\* mode until its aggregator holds MaxCountVotes labels.
DecideCount(dets) ==
    /\ Len(votesCount) < MaxCountVotes
    /\ Decide("count", dets)

NextModes ==
    \/ RepeatIdentify
    \/ \E dets \in SmallFrames : DecideCount(dets)
    \/ \E mode \in OtherModes, dets \in SmallFrames : Decide(mode, dets)

SpecModes == InitScenario /\ [][NextModes]_vars

\* One thread speaks two texts and shuts the engine down, another thread
\* calls nothing but repeat_last().
Speaker == "p1"

Repeater == "p2"

RepeatTexts == {<<"a">>, <<"b">>}

NextRepeatLast ==
    \/ Tick
    \/ Worker
    \/ \E raw \in RepeatTexts : SpeakCall(Speaker, raw)
    \/ RepeatLast(Repeater)
    \/ RepeatLastNoOp(Repeater)
    \/ CallReturns(Repeater)
    \/ \E p \in Producers : SpeakCan(p) \/ SpeakPut(p)
    \/ ShutdownCall(Speaker)
    \/ ShutdownSet(Speaker)
    \/ ShutdownPut(Speaker)

SpecRepeatLast == Init /\ [][NextRepeatLast]_vars

\* The decision engine called in every mode but identify while the clock
\* goes on, count mode until its aggregator holds MaxCountVotes labels.
ObstacleCall == \E dets \in SmallFrames : Decide("obstacle", dets)

NextObstacle ==
    \/ Tick
    \/ ObstacleCall
    \/ \E dets \in SmallFrames : DecideCount(dets)
    \/ \E mode \in OtherModes \ {"obstacle"}, dets \in SmallFrames :
           Decide(mode, dets)

SpecObstacle == Init /\ [][NextObstacle]_vars

\* Identify mode given frames of confident and of doubtful detections.
IdentifyCall(dets) == DecideCall("identify", dets, FrameShape)

HysteresisIdentify(dets) ==
    /\ repeat.calls < MaxHysteresisCalls
    /\ IdentifyCall(dets)
    /\ repeat' = [repeat EXCEPT !.calls = @ + 1]
    /\ UNCHANGED <<speechVars, noteVars, extraVars, ocrVars, probe, agg>>

NextHysteresis == \E dets \in HysteresisFrames : HysteresisIdentify(dets)

SpecHysteresis == Init /\ [][NextHysteresis]_vars

\* Identify mode given, after the repeated frames, one frame of any width
\* with boxes anywhere in it: the frame and its shape are kept.
PositionDecide(dets, frame_shape) ==
    /\ probe.calls = 0
    /\ DecideCall("identify", dets, frame_shape)
    /\ probe' = [frame |-> dets, calls |-> 1, shape |-> frame_shape,
                 before |-> [votesIdentify |-> votesIdentify,
                             votesCount |-> votesCount,
                             confHist |-> confHist]]
    /\ UNCHANGED <<speechVars, noteVars, extraVars, ocrVars, repeat, agg>>

NextPosition ==
    \/ RepeatIdentify
    \/ \E dets \in PositionFrames, frame_shape \in FrameShapes :
           PositionDecide(dets, frame_shape)

SpecPosition == InitProbe /\ [][NextPosition]_vars

\* The frame loop and the clock.
InitFrameLoop ==
    /\ InitSpeech
    /\ order = OrderFrom(MaxTickets)
    /\ InitDecide
    /\ InitNote
    /\ interpreter = "loaded"
    /\ NoRepeat
    /\ NoProbe
    /\ InitAgg
    /\ InitLoopAny
    /\ NoCall
    /\ NoOcr

NextLoop ==
    \/ Tick
    \/ \E text \in LoopTexts, took \in RenderTimes, ok \in BOOLEAN :
           LoopDecision(text, took, ok)
    \/ \E text \in LoopTexts, took \in RenderTimes, ok \in BOOLEAN :
           LoopKeySpeak(text, took, ok)

SpecLoop == InitFrameLoop /\ [][NextLoop]_vars

\* One thread speaks, another thread calls nothing but stop(); nobody calls
\* clear_queue() or shutdown().
Stopper == "p2"

\* speak() for as long as the entries are told apart by their tickets.
SpeakTicketed(p, raw) ==
    /\ order.next < MaxTickets
    /\ SpeakCall(p, raw)

NextStop ==
    \/ Tick
    \/ Worker
    \/ \E raw \in RepeatTexts : SpeakTicketed(Speaker, raw)
    \/ SpeakCan(Speaker)
    \/ SpeakPut(Speaker)
    \/ StopCall(Stopper)
    \/ StopLocked(Stopper)

SpecStop == InitTickets /\ [][NextStop]_vars

\* The worker is scheduled fairly, every render call returns and the clock
\* goes on.
FairStop == SpecStop /\ WF_vars(Worker) /\ WF_vars(Tick)

\* A VoteAggregator called in every way.
NextAgg ==
    \/ \E label \in Labels : AggAdd(label)
    \/ AggClear
    \/ \E min_votes \in MinVotes : AggMajority(min_votes)
    \/ AggLast

SpecAgg == Init /\ [][NextAgg]_vars

\* min_votes is an int: zero and negative numbers are arguments too.
AnyMinVotes == (0 - 1)..(AggMaxlen + 1)

\* A VoteAggregator called in every way, with any integer at majority().
NextAggAny ==
    \/ \E label \in Labels : AggAdd(label)
    \/ AggClear
    \/ \E min_votes \in AnyMinVotes : AggMajority(min_votes)
    \/ AggLast

SpecAggAny == Init /\ [][NextAggAny]_vars

\* The price engine and the OCR banknote reader given frame after frame.
InitReaders ==
    /\ InitSpeech
    /\ order = OrderFrom(MaxTickets)
    /\ InitDecide
    /\ InitNote
    /\ interpreter = "loaded"
    /\ NoRepeat
    /\ NoProbe
    /\ InitAgg
    /\ InitLoop
    /\ NoCall
    /\ InitOcr

NextReaders ==
    \/ \E text \in PriceTexts, ok \in BOOLEAN : PricePredict(text, ok)
    \/ \E text \in OcrNoteTexts, ok \in BOOLEAN : OcrNotePredict(text, ok)

SpecReaders == InitReaders /\ [][NextReaders]_vars

NextNote == \E scores \in NoteScores, ok \in BOOLEAN : Predict(scores, ok)

SpecNote == InitClassifier /\ [][NextNote]_vars

\* The overlap test called once on any two boxes.
InitOverlapCall ==
    /\ InitSpeech
    /\ order = OrderFrom(MaxTickets)
    /\ InitDecide
    /\ InitNote
    /\ interpreter = "loaded"
    /\ NoRepeat
    /\ NoProbe
    /\ InitAgg
    /\ InitLoop
    /\ InitOverlap
    /\ NoOcr

SpecOverlap == InitOverlapCall /\ [][OverlapCall]_vars

(***************************************************************************)
(* SpeechEngine: the claims                                                *)
(***************************************************************************)

\* A render call starts in this step.
RenderStarts == rendering' > rendering

\* C1: at most one utterance is being rendered by the audio backend at any
\* time, whatever the producers and the worker do.
C1_OneRenderAtATime == rendering <= 1

\* A render is in progress while a producer is blocked in stop(), another
\* entry is queued and the other producer is inside a call.
C1_Witness ==
    /\ rendering = 1
    /\ q # <<>>
    /\ \E p \in Producers : ppc[p] = "st_lock"
    /\ \E p \in Producers : ppc[p] \in {"sp_put", "cq", "sd_set"}

\* C2 as stated: any two consecutive render calls start at least Cooldown
\* apart, whether or not the earlier one completed successfully.
C2_GapAfterAnyRender ==
    [][(RenderStarts /\ lastStart >= 0) => lastStart' - lastStart >= Cooldown]_vars

\* C2 as amended: a render call never starts before lastSpokenTs + Cooldown,
\* so two consecutive render calls start at least Cooldown apart whenever the
\* earlier one completed successfully.
C2_GapAfterSuccessfulRender ==
    [][RenderStarts =>
          /\ lastStart' >= lastSpokenTs + Cooldown
          /\ lastOutcome = "ok" => lastStart' - lastStart >= Cooldown]_vars

\* A render call is running that follows a successful one.
C2_Witness == lastOutcome = "running" /\ lastSpoken # NoneText

\* C4: once a shutdown() call has returned, the worker starts no render call.
C4_NoRenderAfterShutdown == [][sdReturned => ~RenderStarts]_vars

\* Producer p's speak() call returns in this step.
SpeakReturns(p) == ppc[p] \in {"sp_can", "sp_put"} /\ ppc'[p] = "idle"

\* C5 as stated: a speak() call that got past the empty-text test returns
\* without appending (text, now) only when shutdown has been requested or the
\* queue is full.
C5_NoOpOnlyEmptyShutdownFull ==
    [][\A p \in Producers :
          SpeakReturns(p) =>
              \/ q' = Append(q, <<ptext[p], now>>)
              \/ shutdownFlag
              \/ Len(q) >= QueueMax]_vars

\* C5 as amended: speak() goes on to the queue only with a stripped, non-empty
\* text, no shutdown requested and the cooldown elapsed (can_speak()); it
\* returns before the put exactly when can_speak() is false, leaving the queue
\* alone; and its put appends (stripped text, now) unless the queue is full.
C5_NoOpOnlyEmptyShutdownCooldownFull ==
    [][\A p \in Producers :
          /\ (ppc[p] = "idle" /\ ppc'[p] = "sp_can") =>
                 /\ ~shutdownFlag
                 /\ ptext'[p] # <<>>
                 /\ Head(ptext'[p]) # " "
                 /\ ptext'[p][Len(ptext'[p])] # " "
          /\ (ppc[p] = "sp_can" /\ ppc'[p] = "sp_put") => CanSpeak
          /\ (ppc[p] = "sp_can" /\ ppc'[p] = "idle") => (~CanSpeak /\ q' = q)
          /\ (ppc[p] = "sp_put" /\ ppc'[p] = "idle") =>
                 q' = IF Len(q) < QueueMax
                      THEN Append(q, <<ptext[p], now>>) ELSE q]_vars

\* The queue holds an entry that speak() appended once the cooldown was over.
C5_Witness ==
    /\ lastSpoken # NoneText
    /\ \E i \in 1..Len(q) :
           q[i][1] = <<"a">> /\ q[i][2] >= lastSpokenTs + Cooldown

\* C6: the queue never holds more than QueueMax entries, the wake entry
\* included; speak() is never blocked, whatever the worker does; and a put on
\* a full queue returns with the queue as it was.
C6_BoundedQueueNeverBlocks ==
    /\ [](Len(q) <= QueueMax)
    /\ [](\A p \in Producers :
             /\ ppc[p] = "sp_can" => ENABLED SpeakCan(p)
             /\ ppc[p] = "sp_put" => ENABLED SpeakPut(p))
    /\ [][\A p \in Producers :
             (ppc[p] = "sp_put" /\ Len(q) = QueueMax /\ ppc'[p] # ppc[p]) =>
                 (q' = q /\ ppc'[p] = "idle")]_vars

\* speak() is about to put on a full queue that holds the wake entry, while
\* the worker is busy rendering.
C6_Witness ==
    /\ Len(q) = QueueMax
    /\ \E i \in 1..Len(q) : q[i][1] = <<>>
    /\ \E p \in Producers : ppc[p] = "sp_put"
    /\ wpc = "render"

\* C11: utterances are rendered in the order in which speak() enqueued them:
\* what is rendered is an entry speak() put, with the text it was put with;
\* no entry is rendered twice and none after an entry put later; the wake
\* entry is never rendered.
C11_RenderedInQueueOrder ==
    [][RenderStarts =>
          /\ order.hand.id >= 1
          /\ order.hand.text = wtext
          /\ Strip(wtext) # <<>>
          /\ order.hand.id >= order.last
          /\ order.hand.id < MaxTickets => order.hand.id > order.last]_vars

\* The second entry is being rendered after the first was spoken, with a third
\* one waiting in the queue.
C11_Witness ==
    /\ lastSpoken # NoneText
    /\ order.last = 2
    /\ rendering = 1
    /\ q # <<>>

\* C12: a stop() called while the worker renders reaches the backend at once:
\* the caller never waits for the render call to end.
C12_StopNeverWaitsForRender ==
    \A p \in Producers : ppc[p] = "st_lock" => ENABLED StopLocked(p)

\* A step that takes an entry out of the queue and is not the worker's get.
ClearRemoves == Len(q') < Len(q) /\ wpc' = wpc

\* C13 as stated: no text that was submitted before clear_queue() was called,
\* and was not yet being rendered then, is rendered afterwards; and the queue
\* is empty when clear_queue() returns.
C13_NothingPendingIsRendered ==
    [][/\ RenderStarts => ~order.hand.old
       /\ \A p \in Producers :
              (ppc[p] = "cq" /\ ppc'[p] = "idle") => q' = <<>>]_vars

\* C13 as amended: clear_queue() takes the entries off the head of the queue
\* one by one and none of them reaches the worker or the backend; it returns
\* when it finds the queue empty.
C13_ClearDropsQueuedOnly ==
    [][/\ ClearRemoves =>
              /\ \E p \in Producers : ppc[p] = "cq" /\ ppc'[p] = "cq"
              /\ q' = Tail(q)
              /\ wtext' = wtext
              /\ order'.hand = order.hand
              /\ ~RenderStarts
       /\ \A p \in Producers :
              (ppc[p] = "cq" /\ ppc'[p] = "idle") => (q = <<>> /\ q' = <<>>)]_vars

\* An entry the worker held when clear_queue() was called is being rendered
\* after the call has emptied the queue and returned.
C13_Witness ==
    /\ order.hand.old
    /\ rendering = 1
    /\ q = <<>>
    /\ \A p \in Producers : ppc[p] = "idle"

\* C14: when a render call fails the worker leaves last_spoken and its time
\* alone, does not put the text back or keep it for another try, and returns
\* to the head of its loop for the next entry.
C14_FailedRenderIsSkipped ==
    [][(lastOutcome = "running" /\ lastOutcome' = "failed") =>
          /\ lastSpoken' = lastSpoken
          /\ lastSpokenTs' = lastSpokenTs
          /\ q' = q
          /\ wtext' = NoneText
          /\ wpc' = "loop"]_vars

\* After a failed render call the worker has dequeued the next entry.
C14_Witness ==
    /\ lastOutcome = "failed"
    /\ lastSpoken = NoneText
    /\ wpc = "lock"
    /\ wtext # NoneText

\* C10: after shutdown is requested the worker thread terminates, if it is
\* scheduled fairly and every render call returns.
C10_WorkerTerminates == shutdownFlag ~> (wpc = "done")

\* The worker has terminated although the wake entry found the queue full.
C10_Witness ==
    /\ wpc = "done"
    /\ sdReturned
    /\ Len(q) = QueueMax
    /\ \A i \in 1..Len(q) : q[i][1] # <<>>

(***************************************************************************)
(* DecisionEngine: the claims                                              *)
(***************************************************************************)

\* C3: decide never raises to its caller; in every mode, for every list of
\* detections and in every engine state the call returns a Decision.
C3_DecideNeverRaises == decision.raised = ""

\* C8: the same confident detection given again and again to a fresh engine
\* in identify mode: every call before the VOTE_MIN-th returns an uncertain
\* decision of confidence 0, and the VOTE_MIN-th call returns the label with
\* its spoken position and a confidence above 0.
C8_StableAtVoteMin ==
    /\ repeat.calls \in 1..(VOTE_MIN - 1) =>
           decision = Uncertain("Unsicher, bitte Kamera ruhiger halten")
    /\ repeat.calls = VOTE_MIN =>
           /\ decision.raised = ""
           /\ decision.text =
                  <<repeat.det.label, " ",
                    SpokenPosition(Position(repeat.det.bbox, FrameShape))>>
           /\ decision.conf[1] > 0

\* The VOTE_MIN-th call on a detection barely above the threshold has
\* returned the label with a position.
C8_Witness ==
    /\ repeat.calls = VOTE_MIN
    /\ repeat.det.conf = CONF_THRESHOLD + 1
    /\ Len(decision.text) = 3
    /\ Len(votesIdentify) = VOTE_MIN

\* The label a count decision speaks, NoLabel for any other decision.
SpokenCountLabel ==
    IF decision.raised = "" /\ Len(decision.text) = 3 /\ decision.text[1] \in Nat
    THEN decision.text[3] ELSE NoLabel

\* C9: count mode returns confidence 1.0 exactly when the label it speaks is
\* the stable-majority label of the count aggregator, and 0.6 whenever the
\* spoken label is the frame-dominant fallback.
C9_FullConfidenceOnlyWithMajority ==
    SpokenCountLabel # NoLabel =>
        IF SpokenCountLabel = Majority(votesCount, VOTE_MIN)
        THEN decision.conf = <<100, 1>>
        ELSE decision.conf = <<60, 1>>

(***************************************************************************)
(* TfliteBanknoteStub: the claims                                          *)
(***************************************************************************)

\* The class a banknote decision announces, NoLabel when it announces none.
AnnouncedNote ==
    IF noteDecision.text = <<"Kein Geld erkannt.">> THEN "kein geld"
    ELSE IF Len(noteDecision.text) = 2 THEN noteDecision.text[1]
    ELSE NoLabel

\* C7: a predict call that classified its frame announces a value only when
\* that value holds at least BANKNOTE_VOTE_MIN entries of the vote window,
\* and returns the uncertain phrase in every other case.
C7_AnnouncesOnlyWithMajority ==
    noteDecision.debug \in {"tflite", "tflite_none", "tflite_uncertain"} =>
        IF AnnouncedNote # NoLabel
        THEN VoteCount(votesNote, AnnouncedNote) >= BANKNOTE_VOTE_MIN
        ELSE noteDecision.text =
                 <<"Unsicher. Bitte Schein flach halten und nah an die Kamera.">>

(***************************************************************************)
(* VoteAggregator: the claims                                              *)
(***************************************************************************)

\* C18: for every buffer and every min_votes >= 1, majority(min_votes) returns
\* a label that no label of the buffer outnumbers when that label occurs at
\* least min_votes times, and None otherwise; after a, a, a, b, b
\* majority(3) is a and majority(4) is None.
C18_MajorityIsTopLabel ==
    agg.op = "majority" =>
        /\ IF \E label \in Labels : VoteCount(agg.buffer, label) >= agg.arg
           THEN /\ agg.result \in Labels
                /\ VoteCount(agg.buffer, agg.result) >= agg.arg
                /\ \A label \in Labels :
                       VoteCount(agg.buffer, label)
                           <= VoteCount(agg.buffer, agg.result)
           ELSE agg.result = NoLabel
        /\ agg.buffer = <<"A", "A", "A", "B", "B">> =>
               /\ agg.arg = 3 => agg.result = "A"
               /\ agg.arg = 4 => agg.result = NoLabel

\* majority(3) has returned a after a, a, a, b, b.
C18_Witness ==
    /\ agg.op = "majority"
    /\ agg.buffer = <<"A", "A", "A", "B", "B">>
    /\ agg.arg = 3
    /\ agg.result = "A"

\* C19: after any add and clear calls the buffer is no longer than its
\* capacity and holds, in order, the last min(k, capacity) labels added since
\* the latest clear (k of them were added); last() returns the label added
\* latest, None on an empty buffer.
C19_BufferIsLastAdded ==
    LET k == Len(agg.added)
        n == Min(k, AggMaxlen)
    IN  /\ Len(agg.buffer) <= AggMaxlen
        /\ agg.buffer = SubSeq(agg.added, k - n + 1, k)
        /\ agg.op = "last" =>
               agg.result = IF k = 0 THEN NoLabel ELSE agg.added[k]

\* last() has been called after more labels were added than the buffer holds,
\* the first of them not the label the buffer starts with now.
C19_Witness ==
    /\ agg.op = "last"
    /\ Len(agg.added) = MaxAdds
    /\ agg.added[1] # agg.buffer[1]
    /\ agg.result = agg.added[MaxAdds]

(***************************************************************************)
(* Count mode: the overlap filter                                          *)
(***************************************************************************)

\* float(max(0, x2 - x1) * max(0, y2 - y1)): the area of a box
BoxArea(bbox) == Max(0, bbox[3] - bbox[1]) * Max(0, bbox[4] - bbox[2])

\* inter_area: the area two boxes share
IntersectionArea(bbox1, bbox2) ==
    BoxArea(<<Max(bbox1[1], bbox2[1]), Max(bbox1[2], bbox2[2]),
              Min(bbox1[3], bbox2[3]), Min(bbox1[4], bbox2[4])>>)

\* union_area = area1 + area2 - inter_area
UnionArea(bbox1, bbox2) ==
    BoxArea(bbox1) + BoxArea(bbox2) - IntersectionArea(bbox1, bbox2)

\* The detections the overlap filter kept out of the observed frame.
ProbeKept == Filtered(SortedByConf(probe.frame), Len(probe.frame))

\* C15: for every detection list given to count mode, no two detections kept
\* by the overlap filter have an Intersection-over-Union of 0.5 or more
\* (2 * intersection area >= union area), and every kept detection has a
\* confidence of at least CONF_THRESHOLD.
C15_KeptApartAndConfident ==
    probe.calls = 1 =>
        /\ \A i, j \in 1..Len(ProbeKept) :
               i # j =>
                   LET inter == IntersectionArea(ProbeKept[i].bbox,
                                                 ProbeKept[j].bbox)
                       union == UnionArea(ProbeKept[i].bbox, ProbeKept[j].bbox)
                   IN  ~(union > 0 /\ 2 * inter >= union)
        /\ \A i \in 1..Len(ProbeKept) : ProbeKept[i].conf >= CONF_THRESHOLD

\* Every two boxes of the observed frame overlap above the threshold.
PairwiseOverlapping ==
    \A i, j \in 1..Len(probe.frame) :
        i # j =>
            2 * IntersectionArea(probe.frame[i].bbox, probe.frame[j].bbox)
                > UnionArea(probe.frame[i].bbox, probe.frame[j].bbox)

\* C16: in count mode, for n >= 1 detections of one label whose boxes
\* pairwise overlap above the threshold and whose highest confidence is at
\* least CONF_THRESHOLD, the overlap filter keeps exactly one detection, a
\* most confident one, and the reported count is 1.
C16_OverlappingCountedOnce ==
    (/\ probe.calls = 1
     /\ probe.frame # <<>>
     /\ \A i \in 1..Len(probe.frame) :
            probe.frame[i].label = probe.frame[1].label
     /\ PairwiseOverlapping
     /\ \E i \in 1..Len(probe.frame) : probe.frame[i].conf >= CONF_THRESHOLD)
    => /\ Len(ProbeKept) = 1
       /\ \E i \in 1..Len(probe.frame) : probe.frame[i] = ProbeKept[1]
       /\ \A i \in 1..Len(probe.frame) :
              probe.frame[i].conf <= ProbeKept[1].conf
       /\ decision.raised = ""
       /\ decision.text = <<1, " ", probe.frame[1].label>>

\* Two confident detections of one label in different, overlapping boxes
\* were counted as one.
C16_Witness ==
    /\ probe.calls = 1
    /\ Len(probe.frame) = 2
    /\ probe.frame[1].label = probe.frame[2].label
    /\ probe.frame[1].bbox # probe.frame[2].bbox
    /\ PairwiseOverlapping
    /\ probe.frame[1].conf >= CONF_THRESHOLD
    /\ probe.frame[2].conf >= CONF_THRESHOLD
    /\ decision.text = <<1, " ", probe.frame[1].label>>

(***************************************************************************)
(* Identify mode: two products in the frame                                *)
(***************************************************************************)

\* The observed frame, most confident detection first.
ProbeSorted == SortedByConf(probe.frame)

\* The two most confident detections of the observed frame have different
\* labels and confidences less than 0.05 apart.
ProbeAmbiguous ==
    /\ probe.calls = 1
    /\ Len(probe.frame) >= 2
    /\ ProbeSorted[1].label # ProbeSorted[2].label
    /\ ProbeSorted[1].conf - ProbeSorted[2].conf < 5

\* C17: in identify mode, whenever the two most confident detections of a
\* frame have different labels and a confidence gap below 0.05, decide
\* returns the decision asking for one product only, with confidence 0,
\* whatever the vote buffer and the confidence history hold from earlier
\* calls.
C17_AmbiguousWhateverTheHistory ==
    ProbeAmbiguous =>
        /\ decision.raised = ""
        /\ decision.text =
               <<"Mehrere Produkte erkannt, bitte nur ein Produkt ins Bild halten">>
        /\ decision.conf[1] = 0

\* An ambiguous frame was turned down although the vote buffer held a stable
\* label, the label of the frame's most confident detection, and the
\* confidence history was full.
C17_Witness ==
    /\ ProbeAmbiguous
    /\ VoteCount(probe.before.votesIdentify, ProbeSorted[1].label) >= VOTE_MIN
    /\ Len(probe.before.confHist) = ConfMaxlenIdentify
    /\ decision.text =
           <<"Mehrere Produkte erkannt, bitte nur ein Produkt ins Bild halten">>

(***************************************************************************)
(* Count mode: the spoken label                                            *)
(***************************************************************************)

\* The label with the highest tally, the one met first in the kept
\* detections when several labels share it.
DominantOf(kept) ==
    LET tally == [label \in Labels |-> LabelCount(kept, label)]
        best == {label \in Labels :
                    \A other \in Labels : tally[other] <= tally[label]}
        first == CHOOSE i \in 1..Len(kept) :
                     /\ kept[i].label \in best
                     /\ \A j \in 1..(i - 1) : kept[j].label \notin best
    IN  kept[first].label

\* The label count mode speaks: the majority label of the aggregator when it
\* is in the frame's tally, the frame's dominant label otherwise.
SpokenOf(kept, votes) ==
    LET stable == Majority(votes, VOTE_MIN)
    IN  IF stable # NoLabel /\ LabelCount(kept, stable) > 0
        THEN stable ELSE DominantOf(kept)

C21_ShutdownRequestsStop ==
    [][\A p \in Producers :
          (ppc[p] = "sd_set" /\ ppc'[p] # "sd_set" /\ rendering > 0) =>
              (shutdownFlag' /\ ppc'[p] = "sd_lock")]_vars

\* C22: repeat_last() submits exactly the text of the most recent utterance
\* that was rendered successfully, through speak() and under its rules (no
\* shutdown, cooldown over, room in the queue); it does nothing when no
\* utterance was rendered successfully yet.
C22_RepeatLastGoesThroughSpeak ==
    [][/\ (ppc[Repeater] = "idle" /\ ppc'[Repeater] # "idle") =>
              IF lastSpoken = NoneText \/ shutdownFlag
              THEN /\ ppc'[Repeater] = "rl_ret"
                   /\ UNCHANGED <<q, ptext, lastSpoken, lastSpokenTs>>
              ELSE /\ ppc'[Repeater] = "sp_can"
                   /\ ptext'[Repeater] = lastSpoken
                   /\ q' = q
       /\ (ppc[Repeater] = "sp_can" /\ ppc'[Repeater] # "sp_can") =>
              /\ ppc'[Repeater] = IF CanSpeak THEN "sp_put" ELSE "idle"
              /\ q' = q
       /\ (ppc[Repeater] = "sp_put" /\ ppc'[Repeater] # "sp_put") =>
              q' = IF Len(q) < QueueMax
                   THEN Append(q, <<ptext[Repeater], now>>) ELSE q
       /\ lastSpoken' # lastSpoken =>
              (lastOutcome = "ok" /\ wpc = "mark" /\ lastSpoken' = wtext)
       /\ (wpc = "mark" /\ wpc' # "mark") => lastSpoken' = wtext]_vars

\* repeat_last() is about to put the second text, the one rendered latest,
\* after the first text was spoken.
C22_Witness ==
    /\ ppc[Repeater] = "sp_put"
    /\ ptext[Repeater] = <<"b">>
    /\ lastSpoken = <<"b">>
    /\ lastSpokenTs > Cooldown

\* Producer p enters a call in this step.
CallEnters(p) == ppc[p] = "idle" /\ ppc'[p] # "idle"

\* C23: shutdown() is idempotent: a call made when shutdown is set already
\* returns at once, leaving the shutdown flag, the queue, the cooldown state
\* and the backend as the first call left them; it issues no stop request
\* and puts no wake entry.
C23_SecondShutdownChangesNothing ==
    [][\A p \in Producers :
          /\ (CallEnters(p) /\ shutdownFlag) =>
                 ppc'[p] \notin {"sd_set", "sd_lock", "sd_put"}
          /\ (CallEnters(p) /\ ppc'[p] = "sd_ret") => shutdownFlag
          /\ (ppc[p] = "sd_ret" \/ ppc'[p] = "sd_ret") /\ ppc'[p] # ppc[p] =>
                 /\ ppc'[p] \in {"sd_ret", "idle"}
                 /\ UNCHANGED <<q, shutdownFlag, lastSpoken, lastSpokenTs,
                                engineLock, rendering, wpc, wtext, sdReturned>>]_vars

\* A second shutdown() call is returning after the first one put the wake
\* entry, which is still in the queue.
C23_Witness ==
    /\ sdReturned
    /\ \E p \in Producers : ppc[p] = "sd_ret"
    /\ \E i \in 1..Len(q) : q[i][1] = <<>>

\* C24: once shutdown is set, a speak() or repeat_last() call made later
\* returns at its first test with the queue as it was, can_speak() is false
\* in every later state, and nothing resets the shutdown flag.
C24_NoSubmissionAfterShutdown ==
    /\ [](shutdownFlag => ~CanSpeak)
    /\ [][shutdownFlag => shutdownFlag']_vars
    /\ [][\A p \in Producers :
             /\ (CallEnters(p) /\ shutdownFlag) =>
                    (ppc'[p] \notin {"sp_can", "sp_put"} /\ q' = q)
             /\ (ppc[p] \in {"sp_ret", "rl_ret"} /\ ppc'[p] # ppc[p]) =>
                    (ppc'[p] = "idle" /\ q' = q)]_vars

\* After shutdown() has returned, one thread is returning from speak("a")
\* and another from repeat_last() with a text to repeat, the clock past the
\* cooldown.
C24_Witness ==
    /\ sdReturned
    /\ lastSpoken # NoneText
    /\ now - lastSpokenTs >= Cooldown
    /\ \E p \in Producers : ppc[p] = "sp_ret" /\ ptext[p] = <<"a">>
    /\ \E p \in Producers : ppc[p] = "rl_ret"

\* A step that only enqueues an entry, drops it at a full queue, clears one
\* or ends a failed render call.
NothingSpoken ==
    \/ q' # q
    \/ \E p \in Producers : ppc[p] = "sp_put" /\ ppc'[p] = "idle"
    \/ lastOutcome = "running" /\ lastOutcome' = "failed"

\* C25: while no shutdown is requested, can_speak() is true exactly when at
\* least the cooldown has gone by since the last successfully rendered
\* utterance finished, the time the worker records right after the render
\* call; entries that are enqueued, dropped or cleared and render calls that
\* fail do not change its value.
C25_CooldownCountsFromLastSuccess ==
    /\ [](~shutdownFlag => (CanSpeak <=> now - lastSpokenTs >= Cooldown))
    /\ [][lastSpokenTs' # lastSpokenTs =>
             (wpc = "mark" /\ lastOutcome = "ok" /\ lastSpokenTs' = now)]_vars
    /\ [][(wpc = "mark" /\ wpc' # "mark") => lastSpokenTs' = now]_vars
    /\ [][(NothingSpoken /\ ~shutdownFlag') => (CanSpeak' <=> CanSpeak)]_vars

\* can_speak() is true right after a render call that failed, the cooldown
\* of the utterance spoken before it being over.
C25_Witness ==
    /\ ~shutdownFlag
    /\ CanSpeak
    /\ lastSpoken # NoneText
    /\ lastOutcome = "failed"
    /\ now - lastStart < Cooldown

\* C30: last_spoken and last_spoken_ts are written by the worker only, and
\* only right after a render call that completed without error; speak(),
\* can_speak(), repeat_last(), stop(), clear_queue() and shutdown() leave
\* both as they are.
C30_OnlyWorkerMarksAfterSuccess ==
    [][/\ (lastSpoken' # lastSpoken \/ lastSpokenTs' # lastSpokenTs) =>
              /\ wpc = "mark"
              /\ lastOutcome = "ok"
              /\ lastSpoken' = wtext
              /\ lastSpokenTs' = now
              /\ ppc' = ppc
       /\ (wpc' = "mark" /\ wpc # "mark") =>
              (wpc = "render" /\ lastOutcome' = "ok")
       /\ ppc' # ppc => UNCHANGED <<lastSpoken, lastSpokenTs>>]_vars

\* The worker has marked a text as spoken, later than the start of the
\* program, while one caller clears the queue and another waits in stop().
C30_Witness ==
    /\ lastSpoken = <<"a">>
    /\ lastSpokenTs > Cooldown
    /\ lastOutcome = "ok"
    /\ \E p \in Producers : ppc[p] = "cq"
    /\ \E p \in Producers : ppc[p] \in {"st_lock", "sp_ret"}

(***************************************************************************)
(* VoteAggregator: failures and the order of the votes                     *)
(***************************************************************************)

\* C26: VoteAggregator has no failure modes: add, majority, last and clear
\* return without raising in every buffer state, the empty buffer and the
\* buffer right after clear() included, and for every integer min_votes.
C26_AggregatorNeverRaises == agg.result # "IndexError"

\* Two buffers hold every label equally often.
SameVotes(buf, other) ==
    \A label \in Labels : VoteCount(buf, label) = VoteCount(other, label)

\* C27: majority(min_votes) depends only on how often each label occurs in
\* the buffer, not on the order of insertion: buffers with the same labels
\* equally often give the same result for every min_votes >= 1; and
\* majority leaves the buffer as it is.
C27_MajorityIgnoresOrder ==
    /\ [](agg.op = "majority" =>
             \A other \in [1..Len(agg.buffer) -> Labels] :
                 SameVotes(agg.buffer, other) =>
                     Majority(other, agg.arg) = agg.result)
    /\ [][agg'.op = "majority" => agg'.buffer = agg.buffer]_vars

(***************************************************************************)
(* DecisionEngine: one aggregator per mode                                 *)
(***************************************************************************)

\* s repeated n times.
Copies(s, n) == [i \in 1..n |-> s]

\* What the k-th identify call on the repeated detection returns and leaves
\* in an engine that was given nothing else.
AloneAfter(k) ==
    LET n == Min(k, ConfMaxlenIdentify)
    IN  [votes |-> Copies(repeat.det.label, Min(k, VOTE_N)),
         hist |-> Copies(repeat.det.conf, n),
         decision |->
             IF k < VOTE_MIN
             THEN Uncertain("Unsicher, bitte Kamera ruhiger halten")
             ELSE MkDecision(
                      <<repeat.det.label, " ",
                        SpokenPosition(Position(repeat.det.bbox, FrameShape))>>,
                      <<repeat.det.conf * n, n>>)]

\* C28: decide("identify") never changes the count aggregator,
\* decide("count") never changes the identify aggregator or the identify
\* confidence history, and decide in idle or any other mode changes no engine
\* state; so an identify call returns what it returns in an engine that was
\* given no call in another mode.
C28_ModesDoNotInterfere ==
    [][/\ repeat'.calls # repeat.calls =>
              /\ votesCount' = votesCount
              /\ votesIdentify' = AloneAfter(repeat'.calls).votes
              /\ confHist' = AloneAfter(repeat'.calls).hist
              /\ decision' = AloneAfter(repeat'.calls).decision
       /\ repeat'.calls = repeat.calls =>
              UNCHANGED <<votesIdentify, confHist>>
       /\ (\E mode \in OtherModes, dets \in SmallFrames : Decide(mode, dets)) =>
              UNCHANGED <<votesIdentify, votesCount, confHist>>]_vars

\* The VOTE_MIN-th identify call has returned the label although count mode
\* was called in between and voted for the other label.
C28_Witness ==
    /\ repeat.calls = VOTE_MIN
    /\ \E i \in 1..Len(votesCount) : votesCount[i] # repeat.det.label
    /\ decision = AloneAfter(VOTE_MIN).decision

(***************************************************************************)
(* PriceEngine and OcrBanknoteStub: the claims                             *)
(***************************************************************************)

\* The value a decision of one of the two engines announces, NoLabel when it
\* announces none.
AnnouncedValue(d) ==
    IF Len(d.text) = 3 THEN d.text[2]
    ELSE IF Len(d.text) = 2 THEN d.text[1]
    ELSE NoLabel

\* OCR read nothing the engine takes for a value: no digit for a price, none
\* of the five values for a banknote.
NoPriceIn(text) == \A i \in 1..Len(text) : text[i] \notin Digits

NoNoteIn(text) ==
    \A i \in 1..Len(text), name \in DOMAIN OcrNoteSpelled :
        ~MatchesAt(text, i, OcrNoteSpelled[name])

\* What the engines say when they announce no value.
NoValueTexts ==
    {<<>>,
     <<"Preis nicht erkannt. Bitte Preisschild nah und ruhig halten.">>,
     <<"Unsicher. Bitte Preisschild ruhiger halten.">>,
     <<"Unsicher. Bitte Schein flach halten und nah an die Kamera.">>}

\* C29: PriceEngine.predict and OcrBanknoteStub.predict announce a value
\* ("Preis X Euro.", "X Euro.") only when X holds at least vote_min of the
\* entries of the engine's own aggregator, the last vote_n recognized
\* values; a frame in which no value is recognized adds no vote and returns
\* an uncertain or empty decision of confidence 0.
C29_ReadersAnnounceOnlyWithMajority ==
    /\ [](/\ Len(price.votes) <= PRICE_VOTE_N
          /\ Len(ocrNote.votes) <= BANKNOTE_VOTE_N
          /\ IF AnnouncedValue(price.decision) # NoLabel
             THEN /\ price.decision.text[1] = "Preis "
                  /\ price.decision.text[3] = " Euro."
                  /\ VoteCount(price.votes, AnnouncedValue(price.decision))
                         >= PRICE_VOTE_MIN
             ELSE /\ price.decision.text \in NoValueTexts
                  /\ price.decision.conf = 0
          /\ IF AnnouncedValue(ocrNote.decision) # NoLabel
             THEN /\ ocrNote.decision.text[2] = " Euro."
                  /\ VoteCount(ocrNote.votes, AnnouncedValue(ocrNote.decision))
                         >= BANKNOTE_VOTE_MIN
             ELSE /\ ocrNote.decision.text \in NoValueTexts
                  /\ ocrNote.decision.conf = 0)
    /\ [][/\ (\E text \in PriceTexts, ok \in BOOLEAN :
                 (~ok \/ NoPriceIn(text)) /\ PricePredict(text, ok)) =>
                 /\ price'.votes = price.votes
                 /\ AnnouncedValue(price'.decision) = NoLabel
          /\ (\E text \in OcrNoteTexts, ok \in BOOLEAN :
                 (~ok \/ NoNoteIn(text)) /\ OcrNotePredict(text, ok)) =>
                 /\ ocrNote'.votes = ocrNote.votes
                 /\ AnnouncedValue(ocrNote'.decision) = NoLabel]_vars

\* The price engine announces 1,99 with five of its eight votes, the other
\* three for another value, and the banknote reader announces 10.
C29_Witness ==
    /\ price.decision.text = <<"Preis ", "1,99", " Euro.">>
    /\ Len(price.votes) = PRICE_VOTE_N
    /\ VoteCount(price.votes, "1,99") = PRICE_VOTE_MIN
    /\ ocrNote.decision.text = <<"10", " Euro.">>
    /\ VoteCount(ocrNote.votes, "10") >= BANKNOTE_VOTE_MIN

(***************************************************************************)
(* DecisionEngine: the overlap test                                        *)
(***************************************************************************)

\* The two boxes share no width or no height: they are apart or only touch.
NoSharedExtent(bbox1, bbox2) ==
    \/ Min(bbox1[3], bbox2[3]) - Max(bbox1[1], bbox2[1]) <= 0
    \/ Min(bbox1[4], bbox2[4]) - Max(bbox1[2], bbox2[2]) <= 0

\* C31: the overlap test raises nothing, division by zero included; it
\* returns false whenever the two boxes share no width or no height (apart
\* or only touching) or their union has no area; it returns true for the
\* boxes (0,0,10,10) and (1,1,9,9) and false for (0,0,10,10) and
\* (20,20,30,30).
C31_OverlapTestIsTotal ==
    overlap.result # "" =>
        /\ overlap.result \in {"True", "False"}
        /\ NoSharedExtent(overlap.bbox1, overlap.bbox2) =>
               overlap.result = "False"
        /\ UnionArea(overlap.bbox1, overlap.bbox2) = 0 =>
               overlap.result = "False"
        /\ (overlap.bbox1 = <<0, 0, 10, 10>> /\ overlap.bbox2 = <<1, 1, 9, 9>>)
               => overlap.result = "True"
        /\ (overlap.bbox1 = <<0, 0, 10, 10>>
               /\ overlap.bbox2 = <<20, 20, 30, 30>>)
               => overlap.result = "False"

\* The test has answered for two boxes without area: (5,5,5,5) twice.
C31_Witness ==
    /\ overlap.result = "False"
    /\ UnionArea(overlap.bbox1, overlap.bbox2) = 0
    /\ overlap.bbox1 = overlap.bbox2

(***************************************************************************)
(* SpeechEngine: stop() and the pending entries                            *)
(***************************************************************************)

\* The entry with ticket t waits in the queue.
InQueue(t) == \E i \in 1..Len(order.inq) : order.inq[i].id = t

\* The worker sleeps out a cooldown that ends after the last tick of the
\* clock.
SleepsPastMaxTime == wpc = "wait" /\ now = MaxTime /\ now < WaitEnd

\* Producer p takes a step of stop(): it enters the call or leaves it.
StopSteps(p) ==
    /\ ppc'[p] # ppc[p]
    /\ ppc[p] = "st_lock" \/ ppc'[p] = "st_lock"

\* C32: no step of a stop() call changes the queue, the last spoken text or
\* its time; and with no clear_queue() and no shutdown() call, every entry
\* in the queue, whatever stop() calls are made, is later handed to the
\* audio backend.
C32_StopLeavesPendingEntries ==
    /\ [][\A p \in Producers :
              StopSteps(p) =>
                  /\ q' = q
                  /\ order'.inq = order.inq
                  /\ lastSpoken' = lastSpoken
                  /\ lastSpokenTs' = lastSpokenTs]_vars
    /\ \A t \in 1..(MaxTickets - 1) :
           [](InQueue(t) => <>(order.last = t \/ SleepsPastMaxTime))

\* A stop() call is about to reach engine.stop() while the second entry
\* waits in the queue and the first one has been rendered.
C32_Witness ==
    /\ ppc[Stopper] = "st_lock"
    /\ engineLock = "free"
    /\ InQueue(2)
    /\ order.last = 1

(***************************************************************************)
(* DecisionEngine: obstacle mode                                           *)
(***************************************************************************)

\* C33: every decide("obstacle") call returns a Decision; its text is empty
\* when less than the obstacle cooldown of 1.5 s has gone by since the
\* latest obstacle decision with a text, and a call that returns a text
\* starts the next cooldown window.
C33_ObstacleOncePerCooldown ==
    [][ObstacleCall =>
          /\ decision'.raised = ""
          /\ 2 * (now - lastObstacleUtterTime) < ObstacleCooldownHalves =>
                 decision'.text = <<>>
          /\ decision'.text # <<>> => lastObstacleUtterTime' = now]_vars

(***************************************************************************)
(* DecisionEngine: identify mode and its vote buffer                       *)
(***************************************************************************)

\* The frame of the latest decide() call: the observed one, or the repeated
\* detection.
LatestFrame == IF probe.calls = 1 THEN probe.frame ELSE <<repeat.det>>

\* The detection of the highest confidence, the first one among equals.
MostConfident(dets) ==
    dets[CHOOSE i \in 1..Len(dets) :
             /\ \A j \in 1..Len(dets) : dets[j].conf <= dets[i].conf
             /\ \A j \in 1..(i - 1) : dets[j].conf < dets[i].conf]

\* What _spoken_position can return.
SpokenPositions == {"links vor dir", "rechts vor dir", "direkt vor dir"}

\* C34: whenever decide("identify") returns a decision of confidence above
\* 0 its text is "{label} {position}", the identify vote buffer holds at
\* most VOTE_N labels, at least VOTE_MIN of them are the announced label,
\* and the newest of them is the label of the current frame's top detection.
C34_AnnouncedLabelHasTheVotes ==
    (decision.raised = "" /\ decision.conf[1] > 0) =>
        /\ Len(decision.text) = 3
        /\ decision.text[1] \in Labels
        /\ decision.text[2] = " "
        /\ decision.text[3] \in SpokenPositions
        /\ Len(votesIdentify) <= VOTE_N
        /\ VoteCount(votesIdentify, decision.text[1]) >= VOTE_MIN
        /\ votesIdentify # <<>>
        /\ votesIdentify[Len(votesIdentify)] = MostConfident(LatestFrame).label

\* The observed call has announced a label that has exactly VOTE_MIN votes
\* and is not the label of the frame's top detection.
C34_Witness ==
    /\ probe.calls = 1
    /\ decision.conf[1] > 0
    /\ VoteCount(votesIdentify, decision.text[1]) = VOTE_MIN
    /\ decision.text[1] # MostConfident(probe.frame).label

(***************************************************************************)
(* DecisionEngine: identify mode, the calls that cast no vote              *)
(***************************************************************************)

\* The last n entries of a sequence.
LastN(seq, n) ==
    IF Len(seq) > n THEN SubSeq(seq, Len(seq) - n + 1, Len(seq)) ELSE seq

NoProduct == Uncertain("Kein Produkt im Bild")

Ambiguous ==
    Uncertain("Mehrere Produkte erkannt, bitte nur ein Produkt ins Bild halten")

HoldCloser == Uncertain("Unsicher, Kamera naeher an das Produkt halten")

\* C35: an identify call on an empty detection list returns "no product";
\* a call that returns "no product" or "ambiguous" leaves the identify vote
\* buffer and the confidence history as they were; a call turned away by
\* the hysteresis check leaves the vote buffer as it was and appends the
\* top confidence to the history, which keeps its latest 5 entries.
C35_RejectedFramesCastNoVote ==
    [][\A dets \in HysteresisFrames :
          IdentifyCall(dets) =>
              /\ dets = <<>> => decision' = NoProduct
              /\ decision' \in {NoProduct, Ambiguous} =>
                     /\ votesIdentify' = votesIdentify
                     /\ confHist' = confHist
              /\ decision' = HoldCloser =>
                     /\ votesIdentify' = votesIdentify
                     /\ confHist' =
                            LastN(Append(confHist, MostConfident(dets).conf),
                                  ConfMaxlenIdentify)
                     /\ Len(confHist') <= ConfMaxlenIdentify]_vars

\* A call has been turned away by the hysteresis check with a full history
\* of doubtful frames, and the vote of the one accepted frame is still there.
C35_Witness ==
    /\ decision = HoldCloser
    /\ Len(confHist) = ConfMaxlenIdentify
    /\ \A i \in 1..Len(confHist) : confHist[i] < CONF_THRESHOLD
    /\ Len(votesIdentify) = 1

(***************************************************************************)
(* TfliteBanknoteStub: the label switch                                    *)
(***************************************************************************)

\* predict() gets these scores from the interpreter: the confidence of its
\* decision is the highest of them, and it keeps their top label for the
\* next frame.
Classifies(scores) ==
    /\ interpreter = "loaded"
    /\ noteDecision'.conf = MaxScore(scores)
    /\ lastLabelNote' = NoteLabels[ArgMax(scores)]
    /\ Predict(scores, TRUE)

\* C36: when predict() finds a top label other than the one of the frame
\* before, with a confidence of at least the banknote threshold, the vote
\* buffer holds exactly the new label afterwards; with a confidence below
\* the threshold the buffer keeps its labels and takes the new one in, as it
\* does when the top label is the same as before.
C36_ConfidentSwitchRestartsVote ==
    [][\A scores \in NoteScores :
          Classifies(scores) =>
              LET label == NoteLabels[ArgMax(scores)]
                  conf == MaxScore(scores)
                  switch == lastLabelNote # NoLabel /\ label # lastLabelNote
              IN  /\ (switch /\ conf >= BANKNOTE_CONF_THRESHOLD) =>
                         votesNote' = <<label>>
                  /\ ~(switch /\ conf >= BANKNOTE_CONF_THRESHOLD) =>
                         votesNote' =
                             LastN(Append(votesNote, label), BANKNOTE_VOTE_N)]_vars

\* The top label has changed with a confidence below the threshold and the
\* buffer still holds the votes cast before.
C36_Witness ==
    /\ Len(votesNote) = BANKNOTE_VOTE_N
    /\ votesNote[Len(votesNote)] # votesNote[Len(votesNote) - 1]
    /\ lastLabelNote = votesNote[Len(votesNote)]
    /\ noteDecision.conf < BANKNOTE_CONF_THRESHOLD
    /\ noteDecision.debug = "tflite_uncertain"

(***************************************************************************)
(* main(): what the frame loop submits                                     *)
(***************************************************************************)

\* Handing this text to speak() changes something.
Submits(text) ==
    \E took \in RenderTimes, ok \in BOOLEAN : LoopDecision(text, took, ok)

\* C37: the frame loop passes the text of a Decision to speak() only when
\* the text is not empty, is not the text it submitted last and can_speak()
\* is true at that moment; it keeps every text it submits so, and changes
\* the kept text at no other time, so that it never submits the same
\* Decision text twice in a row.
C37_LoopSubmitsOnlyNewText ==
    /\ [][\A text \in LoopTexts :
              Submits(text) =>
                  /\ text # <<>>
                  /\ text # lastSpokenText
                  /\ ttsBackend # "none"
                  /\ now - ttsLastSpoken >= SPEAK_COOLDOWN_S
                  /\ lastSpokenText' = text]_vars
    /\ [][lastSpokenText' # lastSpokenText =>
              /\ \E text \in LoopTexts : Submits(text)
              /\ ttsSaid' = lastSpokenText']_vars

\* The loop has submitted "b" after an earlier text was spoken, and a
\* cooldown after the latest speech the engine is free again.
C37_Witness ==
    /\ lastSpokenText = <<"b">>
    /\ ttsSaid = <<"b">>
    /\ ttsLastSpoken > 0
    /\ now - ttsLastSpoken >= SPEAK_COOLDOWN_S
    /\ now = MaxTime

(***************************************************************************)
(* DecisionEngine: the position announced in identify mode                 *)
(***************************************************************************)

\* Twice the center x of the top detection of the observed frame, and the
\* width of that frame.
TopTwiceCenterX ==
    MostConfident(probe.frame).bbox[1] + MostConfident(probe.frame).bbox[3]

ObservedWidth == probe.shape[2]

\* C38: the position announced by decide("identify") is that of the most
\* confident detection of the frame just given: "links vor dir" exactly
\* when the center x of its box is below a third of the frame width,
\* "rechts vor dir" exactly when it is above two thirds, and "direkt vor
\* dir" exactly when it is between the two or on one of them.
C38_PositionIsTheThirdOfTheTopBox ==
    (probe.calls = 1 /\ decision.raised = "" /\ decision.conf[1] > 0) =>
        /\ Len(decision.text) = 3
        /\ decision.text[3] = "links vor dir" <=>
               3 * TopTwiceCenterX < 2 * ObservedWidth
        /\ decision.text[3] = "rechts vor dir" <=>
               3 * TopTwiceCenterX > 4 * ObservedWidth
        /\ decision.text[3] = "direkt vor dir" <=>
               /\ 3 * TopTwiceCenterX >= 2 * ObservedWidth
               /\ 3 * TopTwiceCenterX <= 4 * ObservedWidth

\* The observed frame holds two detections, the second of them the more
\* confident one with its center exactly a third of the width from the
\* left, the first one further left; the position announced is the middle.
C38_Witness ==
    /\ probe.calls = 1
    /\ decision.conf[1] > 0
    /\ Len(probe.frame) = 2
    /\ probe.frame[1].conf < probe.frame[2].conf
    /\ probe.frame[1].bbox = <<0, 0, 4, 4>>
    /\ 3 * TopTwiceCenterX = 2 * ObservedWidth
    /\ decision.text[3] = "direkt vor dir"

====
